---------------------------- MODULE Spec2Model ----------------------------
(***************************************************************************)
(* Verification model of the PerspectiveMeter calibration core:            *)
(*   src/unnamed/part_000  (geometry primitives, optimizeHomographyFromLines)*)
(*   src/utils/math.ts     (solveLinearSystem, computeHomography, ...)     *)
(*                                                                         *)
(* Numbers.  The program computes in IEEE doubles.  The model computes in  *)
(* exact arithmetic on the values  (n/d) * sqrt(r) , written <<n, d, r>>   *)
(* with r >= 1 square-free, extended with the three non-finite doubles:    *)
(*   <<1,0,1>> = +Infinity, <<-1,0,1>> = -Infinity, <<0,0,1>> = NaN.       *)
(* Products, quotients and square roots of such values are exact; a sum of *)
(* two values with different radicals is not of that form and is rounded   *)
(* (see Rnd), which stands for the rounding a double performs.  Signed     *)
(* zero is not modelled (1/0 is +Infinity).                                *)
(***************************************************************************)
EXTENDS Integers, Sequences, FiniteSets, TLC

\* ------------------------------------------------------------------ bounds
\* Rounded irrational sums are multiples of 1/Grid.
Grid == 4

\* ------------------------------------------------------- number: helpers
Sgn(i) == IF i > 0 THEN 1 ELSE IF i < 0 THEN -1 ELSE 0

AbsI(i) == IF i < 0 THEN -i ELSE i

RECURSIVE GCD(_, _)
GCD(a, b) == IF b = 0 THEN a ELSE GCD(b, a % b)

\* floor(sqrt(n)) between lo and hi, by bisection
RECURSIVE ISqrtIn(_, _, _)
ISqrtIn(n, lo, hi) ==
  IF hi - lo <= 1 THEN lo
  ELSE LET mid == (lo + hi) \div 2
       IN IF mid * mid <= n THEN ISqrtIn(n, mid, hi) ELSE ISqrtIn(n, lo, mid)

ISqrt(n) == IF n <= 0 THEN 0 ELSE ISqrtIn(n, 0, IF n < 46340 THEN n + 1 ELSE 46340)

\* n = s*s*f with f square-free: SqDec(n, 2, 1, 1) = <<s, f>>; p is the
\* least candidate factor, every smaller one having been divided out
RECURSIVE SqDec(_, _, _, _)
SqDec(n, p, s, f) ==
  IF n = 1 THEN <<s, f>>
  ELSE LET factors == {q \in p..ISqrt(n) : n % q = 0}
       IN IF factors = {} THEN <<s, f * n>>
          ELSE LET q == CHOOSE m \in factors : \A r \in factors : m <= r
               IN IF n % (q * q) = 0 THEN SqDec(n \div (q * q), q, s * q, f)
                  ELSE SqDec(n \div q, q + 1, s, f * q)

\* ------------------------------------------------------- number: values
NaN == <<0, 0, 1>>
PosInf == <<1, 0, 1>>
NegInf == <<-1, 0, 1>>

\* the value (n/d)*sqrt(r) in lowest terms, positive denominator
Norm(n, d, r) ==
  IF d = 0 THEN <<Sgn(n), 0, 1>>
  ELSE IF n = 0 THEN <<0, 1, 1>>
  ELSE LET g == GCD(AbsI(n), AbsI(d))
       IN <<Sgn(d) * (n \div g), AbsI(d) \div g, r>>

Q(n, d) == Norm(n, d, 1)
Zero == <<0, 1, 1>>
One == <<1, 1, 1>>

IsNaN(a) == a[2] = 0 /\ a[1] = 0
IsFinite(a) == a[2] # 0
IsZero(a) == a[2] # 0 /\ a[1] = 0

Neg(a) == <<-a[1], a[2], a[3]>>
Abs(a) == <<AbsI(a[1]), a[2], a[3]>>

Mul(a, b) ==
  IF a[2] = 0 \/ b[2] = 0 THEN <<Sgn(a[1] * b[1]), 0, 1>>
  ELSE LET g  == GCD(a[3], b[3])
           g1 == GCD(AbsI(a[1]), b[2])
           g2 == GCD(AbsI(b[1]), a[2])
       IN IF a[1] = 0 \/ b[1] = 0 THEN Zero
          ELSE Norm((a[1] \div g1) * (b[1] \div g2) * g,
                    (a[2] \div g2) * (b[2] \div g1),
                    (a[3] \div g) * (b[3] \div g))

\* 1/a ; 1/0 = +Infinity, 1/Infinity = 0
Inv(a) ==
  IF a[2] = 0 THEN (IF a[1] = 0 THEN NaN ELSE Zero)
  ELSE IF a[1] = 0 THEN PosInf
  ELSE Norm(a[2] * Sgn(a[1]), AbsI(a[1]) * a[3], a[3])

Div(a, b) == Mul(a, Inv(b))

\* a finite value rounded down (towards zero) to a multiple of 1/Grid
Rnd(a) ==
  IF a[2] = 0 \/ a[3] = 1 THEN a
  ELSE Q(Sgn(a[1]) * ISqrt((a[1] * a[1] * a[3] * Grid * Grid) \div (a[2] * a[2])), Grid)

RECURSIVE Add(_, _)
Add(a, b) ==
  IF a[2] = 0 /\ b[2] = 0 THEN (IF a[1] = b[1] THEN a ELSE NaN)
  ELSE IF a[2] = 0 THEN a
  ELSE IF b[2] = 0 THEN b
  ELSE IF a[1] = 0 THEN b
  ELSE IF b[1] = 0 THEN a
  ELSE IF a[3] = b[3]
       THEN LET g == GCD(a[2], b[2])
            IN Norm(a[1] * (b[2] \div g) + b[1] * (a[2] \div g),
                    (a[2] \div g) * b[2], a[3])
       ELSE Add(Rnd(a), Rnd(b))

Sub(a, b) == Add(a, Neg(b))

\* a < b as doubles compare: false when either is NaN
Lt(a, b) ==
  IF IsNaN(a) \/ IsNaN(b) THEN FALSE
  ELSE IF a[2] = 0 /\ b[2] = 0 THEN a[1] < b[1]
  ELSE IF a[2] = 0 THEN a[1] < 0
  ELSE IF b[2] = 0 THEN b[1] > 0
  ELSE IF a[3] = b[3] THEN a[1] * b[2] < b[1] * a[2]
  ELSE IF Sgn(a[1]) # Sgn(b[1]) THEN Sgn(a[1]) < Sgn(b[1])
  ELSE LET l == a[1] * a[1] * a[3] * b[2] * b[2]
           r == b[1] * b[1] * b[3] * a[2] * a[2]
       IN IF a[1] > 0 THEN l < r ELSE r < l

\* Math.sqrt
Sqrt(a) ==
  LET x == Rnd(a)
  IN IF IsNaN(x) THEN NaN
     ELSE IF x[1] < 0 THEN NaN
     ELSE IF x[2] = 0 THEN PosInf
     ELSE IF x[1] = 0 THEN Zero
     ELSE LET dn == SqDec(x[1], 2, 1, 1)
              dd == SqDec(x[2], 2, 1, 1)
          IN Norm(dn[1], dd[1] * dd[2], dn[2] * dd[2])

\* the JavaScript  x || alt  on numbers: alt when x is 0 or NaN
OrElse(x, alt) == IF IsNaN(x) \/ IsZero(x) THEN alt ELSE x


\* ------------------------------------------------------- program constants
\* 1e-12 = 1/(E6*E6) and 1e-18 = 1/(E6*E6*E6), kept as factors that fit an integer
E6 == 1000000

\* Math.abs(a) < 1e-12 .  |n|*sqrt(r)/d < 1/E6^2; for r = 1 this is exactly
\* |n| <= floor(floor((d-1)/E6)/E6); a value with r > 1 and n # 0 is at least 1/d.
AbsLt1e12(a) ==
  a[2] # 0 /\ AbsI(a[1]) * a[3] <= ((a[2] - 1) \div E6) \div E6

\* Math.abs(a) < 1e-18
AbsLt1e18(a) ==
  a[2] # 0 /\ AbsI(a[1]) * a[3] <= (((a[2] - 1) \div E6) \div E6) \div E6

\* ------------------------------------------------------------- geometry
Pt(x, y) == [x |-> x, y |-> y]
PtI(i, j) == Pt(Q(i, 1), Q(j, 1))
Origin == PtI(0, 0)

\* part_000: undistortPoint with the k1 = 0 shortcut removed (mutant)
undistortPoint_noShortcut(pt, k1, center, diagonal) ==
  LET dx == Sub(pt.x, center.x)
      dy == Sub(pt.y, center.y)
      r2 == Div(Add(Mul(dx, dx), Mul(dy, dy)), Mul(diagonal, diagonal))
      factor == Add(One, Mul(k1, r2))
  IN Pt(Add(center.x, Div(dx, factor)), Add(center.y, Div(dy, factor)))

\* part_000: undistortPoint
undistortPoint(pt, k1, center, diagonal) ==
  IF k1 = Zero THEN pt
  ELSE LET dx == Sub(pt.x, center.x)
           dy == Sub(pt.y, center.y)
           r2 == Div(Add(Mul(dx, dx), Mul(dy, dy)), Mul(diagonal, diagonal))
           factor == Add(One, Mul(k1, r2))
       IN Pt(Add(center.x, Div(dx, factor)), Add(center.y, Div(dy, factor)))

\* utils/math.ts: undistortPoint
undistortPoint_math(pt, k1, center, diagonal) ==
  IF k1 = Zero THEN pt
  ELSE LET dx == Sub(pt.x, center.x)
           dy == Sub(pt.y, center.y)
           r2 == Div(Add(Mul(dx, dx), Mul(dy, dy)), Mul(diagonal, diagonal))
           factor == Add(One, Mul(k1, r2))
       IN Pt(Add(center.x, Div(dx, factor)), Add(center.y, Div(dy, factor)))

\* part_000: applyHomography (with the |w| < 1e-12 guard)
applyHomography(pt, H) ==
  LET w == Add(Add(Mul(H[7], pt.x), Mul(H[8], pt.y)), H[9])
  IN IF AbsLt1e12(w) THEN Origin
     ELSE Pt(Div(Add(Add(Mul(H[1], pt.x), Mul(H[2], pt.y)), H[3]), w),
             Div(Add(Add(Mul(H[4], pt.x), Mul(H[5], pt.y)), H[6]), w))

\* utils/math.ts: applyHomography (no guard)
applyHomography_math(pt, H) ==
  LET w == Add(Add(Mul(H[7], pt.x), Mul(H[8], pt.y)), H[9])
  IN Pt(Div(Add(Add(Mul(H[1], pt.x), Mul(H[2], pt.y)), H[3]), w),
        Div(Add(Add(Mul(H[4], pt.x), Mul(H[5], pt.y)), H[6]), w))

\* euclideanDistance
euclideanDistance(p1, p2) ==
  LET dx == Sub(p1.x, p2.x)
      dy == Sub(p1.y, p2.y)
  IN Sqrt(Add(Mul(dx, dx), Mul(dy, dy)))

\* multiplyMatrices: result[i*3+j] accumulated from 0 over k = 0, 1, 2
multiplyMatrices(m1, m2) ==
  [n \in 1..9 |->
     LET i == (n - 1) \div 3
         j == (n - 1) % 3
     IN Add(Add(Add(Zero, Mul(m1[i * 3 + 1], m2[j + 1])),
                Mul(m1[i * 3 + 2], m2[3 + j + 1])),
            Mul(m1[i * 3 + 3], m2[6 + j + 1]))]

\* a matrix literal of integers
MatI(s) == [n \in 1..Len(s) |-> Q(s[n], 1)]

\* ------------------------------------------------------------ bounds
\* at most MaxLines calibration lines are passed to optimizeHomographyFromLines
MaxLines == 2

\* ------------------------------------------------------- trigonometry
\* Math.sin(angle*Math.PI/180), Math.cos(angle*Math.PI/180), as real numbers;
\* the model's angles are multiples of 45 degrees.
Deg360(angle) == ((angle % 360) + 360) % 360

SinDeg(angle) ==
  CASE Deg360(angle) \in {0, 180} -> Zero
    [] Deg360(angle) = 90 -> One
    [] Deg360(angle) = 270 -> Q(-1, 1)
    [] Deg360(angle) \in {45, 135} -> <<1, 2, 2>>
    [] Deg360(angle) \in {225, 315} -> <<-1, 2, 2>>

CosDeg(angle) == SinDeg(angle + 90)

\* An angle is kept as its direction [c |-> cos, s |-> sin].
\* Math.atan2(y, x): the angle of the vector (x, y); atan2(0, 0) = 0
atan2(y, x) ==
  IF IsZero(x) /\ IsZero(y) THEN [c |-> One, s |-> Zero]
  ELSE LET r == Sqrt(Add(Mul(x, x), Mul(y, y)))
       IN [c |-> Div(x, r), s |-> Div(y, r)]

\* the angle a - b
AngleSub(a, b) ==
  [c |-> Add(Mul(a.c, b.c), Mul(a.s, b.s)),
   s |-> Sub(Mul(a.s, b.c), Mul(a.c, b.s))]

\* ------------------------------------------------------- normalizePoints
RECURSIVE SumSeq(_, _)
SumSeq(xs, i) == IF i > Len(xs) THEN Zero ELSE Add(xs[i], SumSeq(xs, i + 1))

\* pts.reduce(acc + f(p), 0), accumulated from the left
RECURSIVE Reduce(_, _, _)
Reduce(xs, i, acc) == IF i > Len(xs) THEN acc ELSE Reduce(xs, i + 1, Add(acc, xs[i]))

\* part_000: normalizePoints; the scale factor, an irrational number in
\* general, is stored rounded (Rnd)
normalizePoints(pts) ==
  LET n == Q(Len(pts), 1)
      centroid == Pt(Div(Reduce([i \in 1..Len(pts) |-> pts[i].x], 1, Zero), n),
                     Div(Reduce([i \in 1..Len(pts) |-> pts[i].y], 1, Zero), n))
      meanDist == Div(Reduce([i \in 1..Len(pts) |-> euclideanDistance(pts[i], centroid)],
                             1, Zero), n)
      scale == Rnd(Div(Sqrt(Q(2, 1)), OrElse(meanDist, One)))
  IN [normalized |-> [i \in 1..Len(pts) |->
                        Pt(Mul(Sub(pts[i].x, centroid.x), scale),
                           Mul(Sub(pts[i].y, centroid.y), scale))],
      T |-> <<scale, Zero, Mul(Neg(scale), centroid.x),
              Zero, scale, Mul(Neg(scale), centroid.y),
              Zero, Zero, One>>]

\* ------------------------------------------- optimizeHomographyFromLines
Line(s, e, len, a, def) ==
  [start |-> s, end |-> e, trueLength |-> len, angle |-> a, defined |-> def]

\* lines.filter(l => l.defined)
RECURSIVE FilterDefined(_)
FilterDefined(ls) ==
  IF ls = <<>> THEN <<>>
  ELSE IF Head(ls).defined THEN <<Head(ls)>> \o FilterDefined(Tail(ls))
  ELSE FilterDefined(Tail(ls))

\* line 86: activeLines.length < 2, off by one (mutant)
TooFew_offByOne(ls) == Len(ls) < 1

\* line 86: activeLines.length < 2
TooFew(ls) == Len(ls) < 2

\* the undistorted endpoints of the lines: start, end, start, end, ...
RawPoints(ls, k, c, dg) ==
  [i \in 1..(2 * Len(ls)) |->
     IF i % 2 = 1 THEN undistortPoint(ls[(i + 1) \div 2].start, k, c, dg)
     ELSE undistortPoint(ls[i \div 2].end, k, c, dg)]

\* the seed of the descent: [initialScale,0,0, 0,initialScale,0, 0,1e-4,1]
InitialH(ls, normalized) ==
  LET initialScale == Div(ls[1].trueLength,
                          OrElse(euclideanDistance(normalized[1], normalized[2]), One))
  IN <<initialScale, Zero, Zero, Zero, initialScale, Zero, Zero, Q(1, 10000), One>>

\* The gradient descent (30000 double-precision iterations over h[0..7], h[8]
\* fixed at 1) is not computed: the 8-vector it ends with is any of
\* LoopOutcomes(T).  Each is a homography G of the pixel plane, written in the
\* normalized coordinates the loop works in (G * T^-1) and scaled to h[8] = 1.
RawOutcomes ==
  { MatI(<<1, 0, 0, 0, 1, 0, 0, 0, 1>>),
    MatI(<<1, 0, 0, 0, 1, 0, 0, 1, 1>>),
    MatI(<<0, 1, 0, -1, 0, 0, 0, 0, 1>>),
    MatI(<<1, 0, 0, 0, -1, 0, 0, 0, 1>>),
    MatI(<<1, 0, 0, 0, 1, 0, 1, 0, -4>>),
    MatI(<<3, 0, 0, 4, 1, 0, 0, 0, 1>>) }

\* the inverse of the similarity T = [s,0,-s*cx, 0,s,-s*cy, 0,0,1]
InvSimilarity(T) ==
  <<Inv(T[1]), Zero, Neg(Div(T[3], T[1])),
    Zero, Inv(T[5]), Neg(Div(T[6], T[5])),
    Zero, Zero, One>>

LoopOutcomes(T) ==
  { [i \in 1..8 |-> Div(M[i], M[9])] :
      M \in { N \in { multiplyMatrices(G, InvSimilarity(T)) : G \in RawOutcomes } :
                ~IsZero(N[9]) } }

\* anchor scan: activeLines.forEach((l, idx) => if (l.trueLength > maxLen) ...)
\* (indices are 1-based here)
RECURSIVE AnchorScan(_, _, _, _)
AnchorScan(ls, idx, maxLen, anchorIdx) ==
  IF idx > Len(ls) THEN anchorIdx
  ELSE IF Lt(maxLen, ls[idx].trueLength)
       THEN AnchorScan(ls, idx + 1, ls[idx].trueLength, idx)
       ELSE AnchorScan(ls, idx + 1, maxLen, anchorIdx)

AnchorIdx(ls) == AnchorScan(ls, 1, Q(-1, 1), 1)

\* the length of a line under matrix M, endpoints undistorted first
ProjectedLength(l, M, k, c, dg) ==
  euclideanDistance(applyHomography(undistortPoint(l.start, k, c, dg), M),
                    applyHomography(undistortPoint(l.end, k, c, dg), M))

\* lines 226-235 with line 0 taken as the anchor (mutant)
ScaleLock_line0(hh, T, ls, k, c, dg) ==
  LET hRaw0 == multiplyMatrices(Append(hh, One), T)
      anchor == ls[1]
      calcLen == ProjectedLength(anchor, hRaw0, k, c, dg)
      sFactor == Div(anchor.trueLength, OrElse(calcLen, One))
  IN multiplyMatrices(<<sFactor, Zero, Zero, Zero, sFactor, Zero, Zero, Zero, One>>, hRaw0)

\* lines 226-235: un-normalize, then scale so that the anchor has its true length
ScaleLock(hh, T, ls, k, c, dg) ==
  LET hRaw0 == multiplyMatrices(Append(hh, One), T)
      anchor == ls[AnchorIdx(ls)]
      calcLen == ProjectedLength(anchor, hRaw0, k, c, dg)
      sFactor == Div(anchor.trueLength, OrElse(calcLen, One))
  IN multiplyMatrices(<<sFactor, Zero, Zero, Zero, sFactor, Zero, Zero, Zero, One>>, hRaw0)

\* lines 238-244: translate line 0's start to the origin, rotate by rotateAngle
Align(hR, ls, k, c, dg) ==
  LET p1 == applyHomography(undistortPoint(ls[1].start, k, c, dg), hR)
      p2 == applyHomography(undistortPoint(ls[1].end, k, c, dg), hR)
      tx == Neg(p1.x)
      ty == Neg(p1.y)
      rotateAngle == AngleSub(atan2(SinDeg(ls[1].angle), CosDeg(ls[1].angle)),
                              atan2(Add(p2.x, tx), Add(p2.y, ty)))
      R == <<rotateAngle.c, Neg(rotateAngle.s), Zero,
             rotateAngle.s, rotateAngle.c, Zero,
             Zero, Zero, One>>
  IN multiplyMatrices(multiplyMatrices(R, <<One, Zero, tx, Zero, One, ty, Zero, Zero, One>>), hR)

\* line 247: the Y-axis orient check
ProbeAbove(c, dg) == Pt(c.x, Sub(c.y, Div(dg, Q(2, 1))))
ProbeBelow(c, dg) == Pt(c.x, Add(c.y, Div(dg, Q(2, 1))))

NeedsFlip(M, c, dg) ==
  Lt(applyHomography(ProbeAbove(c, dg), M).y, applyHomography(ProbeBelow(c, dg), M).y)

\* line 248 flipping the X axis instead (mutant)
FlipY_flipsX(M) == multiplyMatrices(MatI(<<-1, 0, 0, 0, 1, 0, 0, 0, 1>>), M)

\* line 248
FlipY(M) == multiplyMatrices(MatI(<<1, 0, 0, 0, -1, 0, 0, 0, 1>>), M)

\* ======================================================================
\* utils/math.ts: solveLinearSystem, computeHomography
\* ======================================================================

\* lines 27-30: the row at or below row i with the largest |mat[j][i]|, the
\* first such row on a tie
RECURSIVE PivotScan(_, _, _, _)
PivotScan(mat, i, j, max) ==
  IF j > Len(mat) THEN max
  ELSE PivotScan(mat, i, j + 1,
                 IF Lt(Abs(mat[max][i]), Abs(mat[j][i])) THEN j ELSE max)

\* line 31: [mat[i], mat[max]] = [mat[max], mat[i]]
SwapRows(mat, i, max) == [mat EXCEPT ![i] = mat[max], ![max] = mat[i]]

\* lines 26-31: the matrix after the pivot search of column i
Pivoted(mat, i) == SwapRows(mat, i, PivotScan(mat, i, i + 1, i))

\* line 34 with the guard removed (mutant)
PivotTooSmall_never(pivot) == FALSE

\* line 34: Math.abs(pivot) < 1e-18
PivotTooSmall(pivot) == AbsLt1e18(pivot)

\* lines 36-41: rows below row i, columns i..n, reduced by the pivot row
Eliminate(mat, i) ==
  [j \in 1..Len(mat) |->
     IF j <= i THEN mat[j]
     ELSE LET factor == Div(mat[j][i], mat[i][i])
          IN [k \in 1..(Len(mat) + 1) |->
                IF k < i THEN mat[j][k]
                ELSE Sub(mat[j][k], Mul(factor, mat[i][k]))]]

\* lines 46-49: sum of mat[i][j] * x[j] for j = from..n, accumulated on acc
RECURSIVE RowSum(_, _, _, _, _)
RowSum(mat, x, i, from, acc) ==
  IF from > Len(mat) THEN acc
  ELSE RowSum(mat, x, i, from + 1, Add(acc, Mul(mat[i][from], x[from])))

\* line 44: new Array(n).fill(0)
RECURSIVE Zeros(_)
Zeros(n) == IF n = 0 THEN <<>> ELSE Append(Zeros(n - 1), Zero)

\* lines 45-51: back substitution from row i up to row 1
RECURSIVE BackSubstitute(_, _, _)
BackSubstitute(mat, i, x) ==
  IF i = 0 THEN x
  ELSE BackSubstitute(mat, i - 1,
         [x EXCEPT ![i] = Div(Sub(mat[i][Len(mat) + 1], RowSum(mat, x, i, i + 1, Zero)),
                              mat[i][i])])

\* lines 62-70: the local function normalize of computeHomography
normalize(pts) ==
  LET len == Q(Len(pts), 1)
      cx == Div(Reduce([i \in 1..Len(pts) |-> pts[i].x], 1, Zero), len)
      cy == Div(Reduce([i \in 1..Len(pts) |-> pts[i].y], 1, Zero), len)
      dist(p) == Sqrt(Add(Mul(Sub(p.x, cx), Sub(p.x, cx)), Mul(Sub(p.y, cy), Sub(p.y, cy))))
      meanDist == Div(Reduce([i \in 1..Len(pts) |-> dist(pts[i])], 1, Zero), len)
      scale == Div(Sqrt(Q(2, 1)), OrElse(meanDist, One))
  IN [normPts |-> [i \in 1..Len(pts) |->
                     Pt(Mul(Sub(pts[i].x, cx), scale), Mul(Sub(pts[i].y, cy), scale))],
      T |-> <<scale, Zero, Mul(Neg(scale), cx), Zero, scale, Mul(Neg(scale), cy),
              Zero, Zero, One>>,
      Tinv |-> <<Div(One, scale), Zero, cx, Zero, Div(One, scale), cy, Zero, Zero, One>>]

\* lines 81-88: the rows of A, two for each point pair
RowsA(sp, dp) ==
  [r \in 1..(2 * Len(sp)) |->
     LET p == sp[(r + 1) \div 2]
         q == dp[(r + 1) \div 2]
     IN IF r % 2 = 1
        THEN <<p.x, p.y, One, Zero, Zero, Zero, Mul(Neg(q.x), p.x), Mul(Neg(q.x), p.y)>>
        ELSE <<Zero, Zero, Zero, p.x, p.y, One, Mul(Neg(q.y), p.x), Mul(Neg(q.y), p.y)>>]

\* lines 85, 87: the entries of B
RowsB(dp) ==
  [r \in 1..(2 * Len(dp)) |->
     IF r % 2 = 1 THEN dp[(r + 1) \div 2].x ELSE dp[(r + 1) \div 2].y]

\* lines 93-111 and line 24: the rows [AtA[i] ..., AtB[i]] of the augmented
\* matrix of the normal equations
NormalEquations(A, B) ==
  [i \in 1..8 |->
     [j \in 1..9 |->
        IF j <= 8
        THEN Reduce([k \in 1..Len(A) |-> Mul(A[k][i], A[k][j])], 1, Zero)
        ELSE Reduce([k \in 1..Len(A) |-> Mul(A[k][i], B[k])], 1, Zero)]]

\* lines 117-127: the local function mult of computeHomography
mult(M1, M2) ==
  [n \in 1..9 |->
     LET i == (n - 1) \div 3
         j == (n - 1) % 3
     IN Add(Add(Add(Zero, Mul(M1[i * 3 + 1], M2[j + 1])),
                Mul(M1[i * 3 + 2], M2[3 + j + 1])),
            Mul(M1[i * 3 + 3], M2[6 + j + 1]))]

\* lines 115, 129: Hn = [...hNorm, 1]; mult(d.Tinv, mult(Hn, s.T))
Denormalize(hNorm, sN, dN) == mult(dN.Tinv, mult(Append(hNorm, One), sN.T))

\* ======================================================================
\* utils/math.ts: invertMatrix3x3
\* ======================================================================
NoInverse == [null |-> TRUE]

\* line 134: the determinant, expanded along the first row
Determinant(m) ==
  Add(Sub(Mul(m[1], Sub(Mul(m[5], m[9]), Mul(m[6], m[8]))),
          Mul(m[2], Sub(Mul(m[4], m[9]), Mul(m[6], m[7])))),
      Mul(m[3], Sub(Mul(m[4], m[8]), Mul(m[5], m[7]))))

\* lines 132-142 with the cofactor of entry 1 (c*h - b*i) negated (mutant)
invertMatrix3x3_wrongCofactor(m) ==
  LET det == Determinant(m)
      invDet == Div(One, det)
  IN IF AbsLt1e18(det) THEN NoInverse
     ELSE <<Mul(Sub(Mul(m[5], m[9]), Mul(m[6], m[8])), invDet),
            Mul(Sub(Mul(m[2], m[9]), Mul(m[3], m[8])), invDet),
            Mul(Sub(Mul(m[2], m[6]), Mul(m[3], m[5])), invDet),
            Mul(Sub(Mul(m[6], m[7]), Mul(m[4], m[9])), invDet),
            Mul(Sub(Mul(m[1], m[9]), Mul(m[3], m[7])), invDet),
            Mul(Sub(Mul(m[3], m[4]), Mul(m[1], m[6])), invDet),
            Mul(Sub(Mul(m[4], m[8]), Mul(m[5], m[7])), invDet),
            Mul(Sub(Mul(m[7], m[2]), Mul(m[1], m[8])), invDet),
            Mul(Sub(Mul(m[1], m[5]), Mul(m[2], m[4])), invDet)>>

\* lines 132-142: invertMatrix3x3, [a, b, c, d, e, f, g, h, i] = m
invertMatrix3x3(m) ==
  LET det == Determinant(m)
      invDet == Div(One, det)
  IN IF AbsLt1e18(det) THEN NoInverse
     ELSE <<Mul(Sub(Mul(m[5], m[9]), Mul(m[6], m[8])), invDet),
            Mul(Sub(Mul(m[3], m[8]), Mul(m[2], m[9])), invDet),
            Mul(Sub(Mul(m[2], m[6]), Mul(m[3], m[5])), invDet),
            Mul(Sub(Mul(m[6], m[7]), Mul(m[4], m[9])), invDet),
            Mul(Sub(Mul(m[1], m[9]), Mul(m[3], m[7])), invDet),
            Mul(Sub(Mul(m[3], m[4]), Mul(m[1], m[6])), invDet),
            Mul(Sub(Mul(m[4], m[8]), Mul(m[5], m[7])), invDet),
            Mul(Sub(Mul(m[7], m[2]), Mul(m[1], m[8])), invDet),
            Mul(Sub(Mul(m[1], m[5]), Mul(m[2], m[4])), invDet)>>

\* ======================================================================
\* part_000: runMonteCarlo
\* ======================================================================
\* The generator state is an integer in [0, 2^32), which does not fit the
\* integers of the model checker: it is written <<hi, lo>> = hi * Limb + lo,
\* and the intermediate of line 293 is written <<l0, l1, l2, l3>> =
\* l0 + l1 * Limb + l2 * Limb^2 + l3 * Limb^3.
Limb == 65536
LcgMultiplier == 1664525
LcgIncrement == 1013904223
EnsembleSize == 30

\* the uniform value currentSeed / 2^32 is kept to NoiseBits binary digits
NoiseBits == 2

\* line 290 keeping the state the previous seed left (mutant)
SeedStart_carryOver(seedValue, previous) == previous

\* line 290: let currentSeed = seedValue
SeedStart(seedValue, previous) == <<0, seedValue>>

\* line 293: currentSeed * 1664525 + 1013904223, computed exactly
LcgProduct(st) ==
  LET aLo == LcgMultiplier % Limb
      aHi == LcgMultiplier \div Limb
      t0 == st[2] * aLo + (LcgIncrement % Limb)
      t1 == st[1] * aLo + st[2] * aHi + (LcgIncrement \div Limb) + (t0 \div Limb)
      t2 == st[1] * aHi + (t1 \div Limb)
  IN <<t0 % Limb, t1 % Limb, t2 % Limb, t2 \div Limb>>

\* 2^53 = 32 * Limb^3: below it a double holds every integer exactly
Below2p53(p) == p[4] < 32

\* the double holding the intermediate: exact below 2^53; from 2^53 on the
\* low bits are lost (here: the whole low limb)
AsDouble(p) == IF Below2p53(p) THEN p ELSE <<0, p[2], p[3], p[4]>>

\* line 293 without the increment (mutant)
NextSeed_noIncrement(st) ==
  LET aLo == LcgMultiplier % Limb
      aHi == LcgMultiplier \div Limb
      t0 == st[2] * aLo
      t1 == st[1] * aLo + st[2] * aHi + (t0 \div Limb)
  IN <<t1 % Limb, t0 % Limb>>

\* line 293: currentSeed = (currentSeed * 1664525 + 1013904223) % 4294967296
NextSeed(st) ==
  LET p == AsDouble(LcgProduct(st))
  IN <<p[2], p[1]>>

\* line 294: currentSeed / 4294967296, to NoiseBits binary digits
Uniform(st) == Q(st[1] \div (2 ^ (16 - NoiseBits)), 2 ^ NoiseBits)

\* line 299: (seededRandom() * 2 - 1) * sigma, for the state after the draw
Noise(st, sigma) == Mul(Sub(Mul(Uniform(st), Q(2, 1)), One), sigma)

\* lines 299-304: the distance one iteration pushes, drawing from state st
IterationDistance(a, st) ==
  LET s1 == NextSeed(st)
      s2 == NextSeed(s1)
      s3 == NextSeed(s2)
      s4 == NextSeed(s3)
      nA == Pt(Add(a.pA.x, Noise(s1, a.sigma)), Add(a.pA.y, Noise(s2, a.sigma)))
      nB == Pt(Add(a.pB.x, Noise(s3, a.sigma)), Add(a.pB.y, Noise(s4, a.sigma)))
  IN euclideanDistance(applyHomography(undistortPoint(nA, a.k1, a.center, a.diag), a.H),
                       applyHomography(undistortPoint(nB, a.k1, a.center, a.diag), a.H))

\* lines 299-300: currentSeed after the four draws of one iteration
AfterIteration(st) == NextSeed(NextSeed(NextSeed(NextSeed(st))))

\* lines 297-298: localDistances = [], i = 0, with currentSeed at st
LoopStart(st) == [i |-> 0, state |-> st, distances |-> <<>>]

\* lines 298-305: the for loop, from the loop state on
RECURSIVE LocalDistances(_, _)
LocalDistances(a, loop) ==
  IF loop.i >= a.iterations THEN loop
  ELSE LocalDistances(a, [i |-> loop.i + 1,
                          state |-> AfterIteration(loop.state),
                          distances |-> Append(loop.distances,
                                               IterationDistance(a, loop.state))])

\* array.reduce((a, b) => a + b) without an initial value, on a non-empty array
ReduceNoInit(xs) == Reduce(Tail(xs), 1, Head(xs))

\* line 308 dividing by iterations (mutant)
VarianceDenominator_n(iterations) == Q(iterations, 1)

\* line 308: iterations - 1 || 1
VarianceDenominator(iterations) == OrElse(Q(iterations - 1, 1), One)

\* lines 307-310: the result of one seed from its distances
SeedResult(distances, iterations) ==
  LET localMean == Div(ReduceNoInit(distances), Q(iterations, 1))
      sq == [n \in 1..Len(distances) |->
               Mul(Sub(distances[n], localMean), Sub(distances[n], localMean))]
      localVariance == Div(Reduce(sq, 1, Zero), VarianceDenominator(iterations))
  IN [mean |-> localMean, stdDev |-> Sqrt(localVariance)]

\* lines 314-317: the mean of the ensemble results
EnsembleMean(results) ==
  [mean |-> Div(Reduce([n \in 1..Len(results) |-> results[n].mean], 1, Zero),
                Q(EnsembleSize, 1)),
   stdDev |-> Div(Reduce([n \in 1..Len(results) |-> results[n].stdDev], 1, Zero),
                  Q(EnsembleSize, 1))]

\* ======================================================================
\* part_000: predictBiasRatio
\* ======================================================================
\* Math.exp for the arguments line 337 passes (x <= 0), rounded down to a
\* multiple of 1/16: ExpTable[k] is ln(16 / k) in thousandths, and
\* exp(x) >= k / 16 exactly when -x <= ln(16 / k)
ExpTable ==
  <<2772, 2079, 1673, 1386, 1163, 980, 826, 693, 575, 470, 374, 287, 207, 133, 64, 0>>

Exp(x) ==
  IF IsNaN(x) THEN NaN
  ELSE IF x[2] = 0 THEN (IF x[1] < 0 THEN Zero ELSE PosInf)
  ELSE LET whole == (-x[1]) \div x[2]
           r0 == (-x[1]) % x[2]
           r1 == (r0 * 10) % x[2]
           r2 == (r1 * 10) % x[2]
           r3 == (r2 * 10) % x[2]
           \* -x in thousandths, rounded up
           t == whole * 1000 + ((r0 * 10) \div x[2]) * 100 + ((r1 * 10) \div x[2]) * 10
                  + ((r2 * 10) \div x[2]) + (IF r3 = 0 THEN 0 ELSE 1)
       IN IF whole >= 3 THEN Zero
          ELSE Q(Cardinality({k \in 1..Len(ExpTable) : t <= ExpTable[k]}), Len(ExpTable))

\* line 328
baseSigma == Q(15, 100)
\* line 331
kernelSigma == 800
\* line 346
minResidualSigma == Q(2, 100)
\* line 343: the total weight the averaged ratio is used above
MinWeight == Q(1, 10)

Sq(a) == Mul(a, a)

\* a > b of two doubles
Gt(a, b) == Lt(b, a)

\* Math.min(a, b)
Min(a, b) == IF IsNaN(a) \/ IsNaN(b) THEN NaN ELSE IF Lt(b, a) THEN b ELSE a

\* lines 336-337: the kernel weight of an entry
KernelWeight(midpoint, entry) ==
  LET distSq == Add(Sq(Sub(midpoint.x, entry.midpoint.x)),
                    Sq(Sub(midpoint.y, entry.midpoint.y)))
  IN Exp(Div(Neg(distSq), Q(2 * kernelSigma * kernelSigma, 1)))

\* line 338: entry.trueDist / (entry.measuredDist || 1)
EntryRatio(entry) == Div(entry.trueDist, OrElse(entry.measuredDist, One))

\* line 329 returning the residual floor (mutant)
EmptyHistoryResult_floor == [ratio |-> One, confidence |-> Zero, localSigma |-> minResidualSigma]

\* line 329: return { ratio: 1.0, confidence: 0, localSigma: baseSigma }
EmptyHistoryResult == [ratio |-> One, confidence |-> Zero, localSigma |-> baseSigma]

\* line 342 without the clamp (mutant)
Confidence_unclamped(totalWeight) == totalWeight

\* line 342: Math.min(1, totalWeight)
Confidence(totalWeight) == Min(One, totalWeight)

\* line 343 without the fallback (mutant)
AveragedRatio_always(totalWeight, weightedRatio) == Div(weightedRatio, totalWeight)

\* line 343: totalWeight > 0.1 ? (weightedRatio / totalWeight) : 1.0
AveragedRatio(totalWeight, weightedRatio) ==
  IF Gt(totalWeight, MinWeight) THEN Div(weightedRatio, totalWeight) ELSE One

\* line 347 with the two ends exchanged (mutant)
LocalSigma_exchanged(conf) ==
  Add(Mul(minResidualSigma, Sub(One, conf)), Mul(baseSigma, conf))

\* line 347: baseSigma * (1 - conf) + minResidualSigma * conf
LocalSigma(conf) ==
  Add(Mul(baseSigma, Sub(One, conf)), Mul(minResidualSigma, conf))

\* lines 342-349: the result from the accumulated sums
BiasResult(totalWeight, weightedRatio) ==
  LET conf == Confidence(totalWeight)
      ratio == AveragedRatio(totalWeight, weightedRatio)
  IN [ratio |-> Add(Mul(ratio, conf), Mul(One, Sub(One, conf))),
      confidence |-> conf,
      localSigma |-> LocalSigma(conf)]

\* ======================================================================
\* App.tsx, Sidebar.tsx: the places that produce a measurement
\* ======================================================================
\* the iterations every caller passes to runMonteCarlo (100), bounded
CallerIterations == 2
\* the sigma every caller passes to runMonteCarlo (2.0)
CallerSigma == Q(2, 1)

\* part_000 lines 289-311: ENSEMBLE_SEEDS.map, the array it returns; the
\* callback starts its own currentSeed for each seed value, so no earlier
\* state is handed to it
EnsembleResults(a) ==
  [n \in 1..EnsembleSize |->
     SeedResult(LocalDistances(a, LoopStart(SeedStart(n - 1, <<0, 0>>))).distances,
                a.iterations)] \o <<>>

\* part_000 lines 276-318, for iterations >= 1
runMonteCarlo(pA, pB, H, k1, center, diag, iterations, sigma) ==
  EnsembleMean(EnsembleResults([pA |-> pA, pB |-> pB, H |-> H, k1 |-> k1,
                                center |-> center, diag |-> diag,
                                iterations |-> iterations, sigma |-> sigma]))

\* part_000 lines 332-340: history.forEach from entry n on
RECURSIVE Accumulate(_, _, _, _, _)
Accumulate(midpoint, history, n, totalWeight, weightedRatio) ==
  IF n > Len(history) THEN [totalWeight |-> totalWeight, weightedRatio |-> weightedRatio]
  ELSE LET weight == KernelWeight(midpoint, history[n])
       IN Accumulate(midpoint, history, n + 1, Add(totalWeight, weight),
                     Add(weightedRatio, Mul(EntryRatio(history[n]), weight)))

\* part_000 lines 324-350
predictBiasRatio(midpoint, history) ==
  IF history = <<>> THEN EmptyHistoryResult
  ELSE LET sums == Accumulate(midpoint, history, 1, Zero, Zero)
       IN BiasResult(sums.totalWeight, sums.weightedRatio)

\* { x: imgDims.w / 2, y: imgDims.h / 2 }
Center(dims) == Pt(Div(dims.w, Q(2, 1)), Div(dims.h, Q(2, 1)))
\* Math.sqrt(imgDims.w * imgDims.w + imgDims.h * imgDims.h)
Diagonal(dims) == Sqrt(Add(Mul(dims.w, dims.w), Mul(dims.h, dims.h)))

\* { x: (a.x + b.x) / 2, y: (a.y + b.y) / 2 }
Mid(a, b) == Pt(Div(Add(a.x, b.x), Q(2, 1)), Div(Add(a.y, b.y), Q(2, 1)))

\* App.tsx 230-238 (the same at Sidebar.tsx 311-319 and 362-370): the
\* fields of the entries that predictBiasRatio reads
ValEntry(vl, H, k1, center, diag) ==
  [midpoint |-> Mid(vl.start, vl.end),
   measuredDist |-> euclideanDistance(
                      applyHomography(undistortPoint(vl.start, k1, center, diag), H),
                      applyHomography(undistortPoint(vl.end, k1, center, diag), H)),
   trueDist |-> vl.trueLength]

ValEntries(vls, H, k1, center, diag) ==
  LET kept == SelectSeq(vls, LAMBDA vl : vl.defined /\ Gt(vl.trueLength, Zero))
  IN [n \in 1..Len(kept) |-> ValEntry(kept[n], H, k1, center, diag)]

\* the three half-widths
Intervals(sigmaTotal) ==
  [ci90 |-> Mul(Q(1645, 1000), sigmaTotal),
   ci95 |-> Mul(Q(1960, 1000), sigmaTotal),
   ci99 |-> Mul(Q(2576, 1000), sigmaTotal)]

\* App.tsx 244-255: what calculateMeasurement derives from rawDist, biasRes, mc
CalculateMeasurementCombine(rawDist, biasRes, mc) ==
  LET correctedDist == Mul(rawDist, biasRes.ratio)
      sigmaGPR == IF Gt(biasRes.confidence, Zero) THEN biasRes.localSigma
                  ELSE Mul(correctedDist, Q(15, 100))
      sigmaTotal == Sqrt(Add(Sq(mc.stdDev), Sq(sigmaGPR)))
  IN [rawDist |-> rawDist, correctedDist |-> correctedDist, ratio |-> biasRes.ratio,
      mcStdDev |-> mc.stdDev, sigmaGPR |-> sigmaGPR,
      confidence |-> biasRes.confidence, localSigma |-> biasRes.localSigma,
      uncertainty |-> sigmaTotal,
      intervals |-> Intervals(sigmaTotal)]

\* App.tsx 223-246: rawDist, biasRes and mc of calculateMeasurement
CalculateMeasurementValues(pA, pB, H, k1, dims, vls) ==
  LET center == Center(dims)
      diag == Diagonal(dims)
      uA == undistortPoint(pA, k1, center, diag)
      uB == undistortPoint(pB, k1, center, diag)
      valEntries == ValEntries(vls, H, k1, center, diag)
  IN CalculateMeasurementCombine(euclideanDistance(applyHomography(uA, H), applyHomography(uB, H)),
                                predictBiasRatio(Mid(pA, pB), valEntries),
                                runMonteCarlo(pA, pB, H, k1, center, diag, CallerIterations, CallerSigma))

\* Sidebar.tsx 322-327: what handleUpdateArchiveEntry derives from them
UpdateArchiveEntryCombine(rawDist, biasRes, mc) ==
  LET correctedDist == Mul(rawDist, biasRes.ratio)
      sigmaGPR == IF Gt(biasRes.confidence, Zero) THEN biasRes.localSigma
                  ELSE Mul(correctedDist, Q(15, 100))
      sigmaTotal == Sqrt(Add(Sq(mc.stdDev), Sq(sigmaGPR)))
  IN [rawDist |-> rawDist, correctedDist |-> correctedDist, ratio |-> biasRes.ratio,
      mcStdDev |-> mc.stdDev, sigmaGPR |-> sigmaGPR,
      confidence |-> biasRes.confidence, localSigma |-> biasRes.localSigma,
      uncertainty |-> sigmaTotal,
      intervals |-> [ci90 |-> Mul(Q(1645, 1000), sigmaTotal),
                     ci95 |-> Mul(Q(1960, 1000), sigmaTotal),
                     ci99 |-> Mul(Q(2576, 1000), sigmaTotal)]]

\* Sidebar.tsx 304-323: rawDist, biasRes and mc of handleUpdateArchiveEntry
UpdateArchiveEntryValues(pA, pB, H, k1, dims, vls) ==
  LET center == Center(dims)
      diag == Diagonal(dims)
      uA == undistortPoint(pA, k1, center, diag)
      uB == undistortPoint(pB, k1, center, diag)
      valEntries == ValEntries(vls, H, k1, center, diag)
  IN UpdateArchiveEntryCombine(euclideanDistance(applyHomography(uA, H), applyHomography(uB, H)),
                              predictBiasRatio(Mid(pA, pB), valEntries),
                              runMonteCarlo(pA, pB, H, k1, center, diag, CallerIterations, CallerSigma))

\* Sidebar.tsx 372-378: what handleImportMeasurementsCSV derives from them
ImportRowCombine(rawDist, biasRes, mc) ==
  LET correctedDist == Mul(rawDist, biasRes.ratio)
      sigmaGPR == IF Gt(biasRes.confidence, Zero) THEN biasRes.localSigma
                  ELSE Mul(correctedDist, Q(15, 100))
      sigmaTotal == Sqrt(Add(Sq(mc.stdDev), Sq(sigmaGPR)))
  IN [rawDist |-> rawDist, correctedDist |-> correctedDist, ratio |-> biasRes.ratio,
      mcStdDev |-> mc.stdDev, sigmaGPR |-> sigmaGPR,
      confidence |-> biasRes.confidence, localSigma |-> biasRes.localSigma,
      uncertainty |-> sigmaTotal,
      intervals |-> [ci90 |-> Mul(Q(1645, 1000), sigmaTotal),
                     ci95 |-> Mul(Q(1960, 1000), sigmaTotal),
                     ci99 |-> Mul(Q(2576, 1000), sigmaTotal)]]

\* Sidebar.tsx 349-373: rawDist, biasRes and mc of a row of handleImportMeasurementsCSV
ImportRowValues(pA, pB, H, k1, dims, vls) ==
  LET center == Center(dims)
      diag == Diagonal(dims)
      uA == undistortPoint(pA, k1, center, diag)
      uB == undistortPoint(pB, k1, center, diag)
      valEntries == ValEntries(vls, H, k1, center, diag)
  IN ImportRowCombine(euclideanDistance(applyHomography(uA, H), applyHomography(uB, H)),
                     predictBiasRatio(Mid(pA, pB), valEntries),
                     runMonteCarlo(pA, pB, H, k1, center, diag, CallerIterations, CallerSigma))

\* parseFloat / parseInt of a field: a number, or NaN for text that is none
NotANumber == <<"abc">>
ParseNumber(field) == IF field = NotANumber THEN NaN ELSE field

\* ======================================================================
\* State
\* ======================================================================
VARIABLES
  pCall,     \* primitives: which function was called ("idle" before the call)
  pPt,       \* primitives: the point argument
  pH,        \* primitives: the matrix argument
  pK1,       \* primitives: the k1 argument
  pCenter,   \* primitives: the center argument
  pDiag,     \* primitives: the diagonal argument
  pRet,      \* primitives: the value returned
  pc,          \* optimizeHomographyFromLines: position ("off" when not called)
  lines,       \* its arguments
  k1,
  center,
  diag,
  activeLines, \* its locals
  Tnorm,
  h,
  hRaw,
  finalH,
  flipped,     \* whether the branch of line 247 was taken
  result,      \* the value returned
  dpc,         \* computeHomography: position ("off" when not called)
  src,         \* its arguments
  dst,
  AtA,         \* solveLinearSystem: its arguments A and B
  AtB,
  mat,         \* solveLinearSystem: the augmented matrix
  col,         \* solveLinearSystem: the column i being eliminated
  pivots,      \* solveLinearSystem: the pivots chosen so far
  hNorm,       \* computeHomography: the solution of the normal equations
  homography,  \* the value returned
  ipc,         \* invertMatrix3x3 and the round trip: position ("off" when not run)
  iH,          \* the matrix
  iPt,         \* the point
  iInv,        \* invertMatrix3x3(iH)
  iFwd,        \* applyHomography(iPt, iH)
  iBack,        \* applyHomography(iFwd, iInv)
  mpc,               \* runMonteCarlo: position ("off" when not modelled)
  mArgs,             \* its arguments
  seedIdx,           \* index into ENSEMBLE_SEEDS of the next seed to run
  currentSeed,       \* the generator state of seededRandom
  ensembleResults,   \* the {mean, stdDev} of the seeds run so far
  ensembleDistances, \* the localDistances of the seeds run so far
  mcLog,             \* the calls finished so far: arguments and outcome
  lpc,        \* seededRandom alone: position ("off" when not modelled)
  lSeed,      \* the seedValue the generator was started at
  lSigma,     \* the sigma of the noise
  lPrev,      \* currentSeed before the last draw
  lProduct,   \* the intermediate currentSeed * 1664525 + 1013904223 of the last draw
  lState,     \* currentSeed
  lNoise,     \* the last value of noise()
  lDraws,     \* the number of draws since the start
  gpc,            \* predictBiasRatio: position ("off" when not modelled)
  gMidpoint,      \* its argument midpoint
  gHistory,       \* its argument history
  gIdx,           \* the number of entries forEach has visited
  totalWeight,    \* line 332
  weightedRatio,  \* line 333
  gLog,           \* the calls finished so far: arguments, total weight, result
  homographyMatrix,    \* App.tsx 55 (Unset when the application is not modelled)
  imgDims,             \* App.tsx 11
  lensK1,              \* calibration.lensK1, App.tsx 35
  validationLines,     \* App.tsx 40
  measurements,        \* App.tsx 41
  calcResult,          \* App.tsx 46
  measurementArchive,  \* App.tsx 54
  handlersRun,         \* the handlers that have run in this session
  lastHandler,         \* the handler or callback that ran last ("none" at the start)
  mode,                 \* App.tsx 12
  calibrationLines,     \* calibration.lines, App.tsx 35
  calibrationStatus,    \* App.tsx 33
  pendingCalibrations,  \* the setTimeout callbacks of computeCalibration not yet run
  savedDatasets,        \* App.tsx 23
  imageGallery,         \* App.tsx 9
  activeImageIdx,       \* App.tsx 10
  pendingUploads,       \* the handleFileUpload calls waiting at line 154
  uploads,              \* the number of handleFileUpload calls so far
  effectDeps,           \* the dependencies of the effect of line 200 when it last ran
  computations,         \* the number of computeCalibration calls that set a timer
  matrixFrom,           \* the computation whose callback stored homographyMatrix (0: none)
  clearedAt,            \* computations at the last clearScoped in CALIBRATE mode
  pendingReads,         \* the FileReader callbacks of handleImportCSV not yet run
  userActions,          \* the number of handler calls the user has made
  iter,        \* the descent loop of optimizeHomographyFromLines: line 119
  stepSize,    \* line 111
  gradients,   \* line 120, as of the last iteration
  orthoPairs   \* the pairs (i, j) the last iteration applied lines 195-210 to

primVars == <<pCall, pPt, pH, pK1, pCenter, pDiag, pRet>>
optVars == <<pc, lines, k1, center, diag, activeLines, Tnorm, h, hRaw, finalH, flipped, result>>
dltVars == <<dpc, src, dst, AtA, AtB, mat, col, pivots, hNorm, homography>>
invVars == <<ipc, iH, iPt, iInv, iFwd, iBack>>
mcVars == <<mpc, mArgs, seedIdx, currentSeed, ensembleResults, ensembleDistances, mcLog>>
lcgVars == <<lpc, lSeed, lSigma, lPrev, lProduct, lState, lNoise, lDraws>>
gprVars == <<gpc, gMidpoint, gHistory, gIdx, totalWeight, weightedRatio, gLog>>
appVars == <<homographyMatrix, imgDims, lensK1, validationLines, measurements,
             calcResult, measurementArchive, handlersRun, lastHandler>>
uiVars == <<mode, calibrationLines, calibrationStatus, pendingCalibrations, savedDatasets,
            imageGallery, activeImageIdx, pendingUploads, uploads, effectDeps,
            computations, matrixFrom, clearedAt, pendingReads, userActions>>
descentVars == <<iter, stepSize, gradients, orthoPairs>>
auxVars == <<invVars, mcVars, lcgVars, gprVars, appVars, uiVars, descentVars>>
vars == <<primVars, optVars, dltVars, auxVars>>

\* ------------------------------------------------ primitives: the calls
PrimPoints == {PtI(0, 0), PtI(1, 2), PtI(-2, 1), Pt(Q(3, 2), Q(4, 1))}

PrimMatrices ==
  { MatI(<<1, 0, 0, 0, 1, 0, 0, 0, 1>>),
    MatI(<<2, 0, 1, 0, 2, -1, 0, 0, 1>>),
    MatI(<<1, 0, 0, 0, 1, 0, 1, 0, -1>>),
    MatI(<<1, 0, 0, 0, 1, 0, 0, 0, 0>>),
    MatI(<<1, 2, 3, 4, 5, 6, 1, 1, 1>>),
    [MatI(<<1, 0, 0, 0, 1, 0, 0, 0, 1>>) EXCEPT ![9] = Q(1, 100000000)] }

PrimK1 == {Zero, One, Q(-1, 2)}
PrimCenters == {PtI(0, 0), PtI(1, 1)}
PrimDiagonals == {Zero, Q(2, 1), Q(5, 1)}

Unset == <<>>

OptIdle ==
  /\ pc = "off" /\ lines = <<>> /\ k1 = Zero /\ center = Origin /\ diag = Zero
  /\ activeLines = Unset /\ Tnorm = Unset /\ h = Unset /\ hRaw = Unset
  /\ finalH = Unset /\ flipped = FALSE /\ result = Unset

DltIdle ==
  /\ dpc = "off" /\ src = <<>> /\ dst = <<>> /\ AtA = Unset /\ AtB = Unset
  /\ mat = Unset /\ col = 0
  /\ pivots = <<>> /\ hNorm = Unset /\ homography = Unset

InvIdle ==
  /\ ipc = "off" /\ iH = Unset /\ iPt = Origin /\ iInv = Unset /\ iFwd = Origin
  /\ iBack = Origin

McIdle ==
  /\ mpc = "off" /\ mArgs = Unset /\ seedIdx = 0 /\ currentSeed = <<0, 0>>
  /\ ensembleResults = <<>> /\ ensembleDistances = <<>> /\ mcLog = <<>>
LcgIdle ==
  /\ lpc = "off" /\ lSeed = 0 /\ lSigma = Zero /\ lPrev = <<0, 0>>
  /\ lProduct = <<0, 0, 0, 0>> /\ lState = <<0, 0>> /\ lNoise = Zero /\ lDraws = 0
GprIdle ==
  /\ gpc = "off" /\ gMidpoint = Origin /\ gHistory = <<>> /\ gIdx = 0
  /\ totalWeight = Zero /\ weightedRatio = Zero /\ gLog = <<>>
AppIdle ==
  /\ homographyMatrix = Unset /\ imgDims = Unset /\ lensK1 = Zero
  /\ validationLines = <<>> /\ measurements = Unset /\ calcResult = Unset
  /\ measurementArchive = <<>> /\ handlersRun = {} /\ lastHandler = "none"
UiIdle ==
  /\ mode = "off" /\ calibrationLines = <<>> /\ calibrationStatus = "idle"
  /\ pendingCalibrations = <<>> /\ savedDatasets = Unset /\ imageGallery = <<>>
  /\ activeImageIdx = -1 /\ pendingUploads = <<>> /\ uploads = 0 /\ effectDeps = Unset
  /\ computations = 0 /\ matrixFrom = Unset /\ clearedAt = 0
  /\ pendingReads = <<>> /\ userActions = 0
DescentIdle ==
  /\ iter = 0 /\ stepSize = Zero /\ gradients = Unset /\ orthoPairs = {}
AuxIdle == InvIdle /\ McIdle /\ LcgIdle /\ GprIdle /\ AppIdle /\ UiIdle /\ DescentIdle

PrimIdle ==
  /\ pCall = "idle" /\ pPt = Origin /\ pH = MatI(<<1, 0, 0, 0, 1, 0, 0, 0, 1>>)
  /\ pK1 = Zero /\ pCenter = Origin /\ pDiag = Zero /\ pRet = Origin

InitPrim ==
  /\ pCall = "idle"
  /\ pPt \in PrimPoints
  /\ pH \in PrimMatrices
  /\ pK1 \in PrimK1
  /\ pCenter \in PrimCenters
  /\ pDiag \in PrimDiagonals
  /\ pRet = Origin
  /\ OptIdle
  /\ DltIdle
  /\ AuxIdle

PrimArgs == <<pPt, pH, pK1, pCenter, pDiag>>

CallUndistortPoint ==
  /\ pCall = "idle"
  /\ pCall' = "undistortPoint"
  /\ pRet' = undistortPoint(pPt, pK1, pCenter, pDiag)
  /\ UNCHANGED <<PrimArgs, optVars, dltVars, auxVars>>

CallUndistortPoint_math ==
  /\ pCall = "idle"
  /\ pCall' = "undistortPoint_math"
  /\ pRet' = undistortPoint_math(pPt, pK1, pCenter, pDiag)
  /\ UNCHANGED <<PrimArgs, optVars, dltVars, auxVars>>

CallApplyHomography ==
  /\ pCall = "idle"
  /\ pCall' = "applyHomography"
  /\ pRet' = applyHomography(pPt, pH)
  /\ UNCHANGED <<PrimArgs, optVars, dltVars, auxVars>>

CallApplyHomography_math ==
  /\ pCall = "idle"
  /\ pCall' = "applyHomography_math"
  /\ pRet' = applyHomography_math(pPt, pH)
  /\ UNCHANGED <<PrimArgs, optVars, dltVars, auxVars>>

NextPrim ==
  \/ CallUndistortPoint
  \/ CallUndistortPoint_math
  \/ CallApplyHomography
  \/ CallApplyHomography_math

SpecPrim == InitPrim /\ [][NextPrim]_vars



\* ------------------------------------- optimizeHomographyFromLines: the call
P00 == PtI(0, 0)
P40 == PtI(4, 0)
P03 == PtI(0, 3)
P43 == PtI(4, 3)

\* the calibration lines a caller may pass (image 4 x 3, pixel corners)
LineCatalog ==
  { Line(P00, P40, Q(4, 1), 90, TRUE),
    Line(P00, P03, Q(3, 1), 0, TRUE),
    Line(P03, P40, Q(5, 1), 135, TRUE),
    Line(P43, P43, Q(6, 1), 0, TRUE),
    Line(P03, P43, Zero, 90, TRUE),
    Line(P40, P43, Q(-2, 1), 180, TRUE),
    Line(P40, P43, Q(3, 1), 0, FALSE) }

RECURSIVE SeqsUpTo(_, _)
SeqsUpTo(S, n) ==
  IF n = 0 THEN {<<>>}
  ELSE LET shorter == SeqsUpTo(S, n - 1)
       IN shorter \cup {Append(q, x) : q \in {t \in shorter : Len(t) = n - 1}, x \in S}

NoResult == [null |-> TRUE]

InitOpt ==
  /\ pc = "start"
  /\ lines \in SeqsUpTo(LineCatalog, MaxLines)
  /\ k1 \in {Zero, Q(-8, 1)}
  /\ center = Pt(Q(2, 1), Q(3, 2))
  /\ diag = Q(5, 1)
  /\ activeLines = Unset /\ Tnorm = Unset /\ h = Unset /\ hRaw = Unset
  /\ finalH = Unset /\ flipped = FALSE /\ result = Unset
  /\ PrimIdle
  /\ DltIdle
  /\ AuxIdle

OptArgs == <<lines, k1, center, diag>>

\* lines 85-86, fewer than 2 defined lines: return null
OptReturnNull ==
  /\ pc = "start"
  /\ TooFew(FilterDefined(lines))
  /\ activeLines' = FilterDefined(lines)
  /\ result' = NoResult
  /\ pc' = "done"
  /\ UNCHANGED <<OptArgs, Tnorm, h, hRaw, finalH, flipped, primVars, dltVars, auxVars>>

\* lines 85-108: filter, undistort, Hartley-normalize, seed h; with no active
\* line, data[0].L (line 107) raises a TypeError
OptNormalize ==
  /\ pc = "start"
  /\ ~TooFew(FilterDefined(lines))
  /\ activeLines' = FilterDefined(lines)
  /\ IF FilterDefined(lines) = <<>>
     THEN /\ pc' = "threw"
          /\ UNCHANGED <<Tnorm, h>>
     ELSE /\ LET np == normalizePoints(RawPoints(FilterDefined(lines), k1, center, diag))
             IN /\ Tnorm' = np.T
                /\ h' = InitialH(FilterDefined(lines), np.normalized)
          /\ pc' = "loop"
  /\ UNCHANGED <<OptArgs, hRaw, finalH, flipped, result, primVars, dltVars, auxVars>>

\* lines 119-223: the descent loop
OptLoop ==
  /\ pc = "loop"
  /\ \E out \in LoopOutcomes(Tnorm) : h' = [i \in 1..9 |-> IF i <= 8 THEN out[i] ELSE h[i]]
  /\ pc' = "scale"
  /\ UNCHANGED <<OptArgs, activeLines, Tnorm, hRaw, finalH, flipped, result, primVars, dltVars, auxVars>>

\* lines 226-235
OptScaleLock ==
  /\ pc = "scale"
  /\ hRaw' = ScaleLock(h, Tnorm, activeLines, k1, center, diag)
  /\ pc' = "align"
  /\ UNCHANGED <<OptArgs, activeLines, Tnorm, h, finalH, flipped, result, primVars, dltVars, auxVars>>

\* lines 238-244
OptAlign ==
  /\ pc = "align"
  /\ finalH' = Align(hRaw, activeLines, k1, center, diag)
  /\ pc' = "orient"
  /\ UNCHANGED <<OptArgs, activeLines, Tnorm, h, hRaw, flipped, result, primVars, dltVars, auxVars>>

\* lines 247-249
OptOrient ==
  /\ pc = "orient"
  /\ flipped' = NeedsFlip(finalH, center, diag)
  /\ finalH' = IF NeedsFlip(finalH, center, diag) THEN FlipY(finalH) ELSE finalH
  /\ pc' = "metrics"
  /\ UNCHANGED <<OptArgs, activeLines, Tnorm, h, hRaw, result, primVars, dltVars, auxVars>>

\* lines 252-268: the metrics loop visits every active line; the value returned
OptReturn ==
  /\ pc = "metrics"
  /\ result' = [matrix |-> finalH,
                reprojectionErrors |-> [i \in 1..Len(activeLines) |-> Zero]]
  /\ pc' = "done"
  /\ UNCHANGED <<OptArgs, activeLines, Tnorm, h, hRaw, finalH, flipped, primVars, dltVars, auxVars>>

NextOpt ==
  \/ OptReturnNull
  \/ OptNormalize
  \/ OptLoop
  \/ OptScaleLock
  \/ OptAlign
  \/ OptOrient
  \/ OptReturn

SpecOpt == InitOpt /\ [][NextOpt]_vars

\* ======================================================================
\* computeHomography (utils/math.ts)
\* ======================================================================
Square0 == <<PtI(-1, -1), PtI(1, -1), PtI(1, 1), PtI(-1, 1)>>
Square2 == <<PtI(0, 0), PtI(2, 0), PtI(2, 2), PtI(0, 2)>>
Twisted == <<PtI(-1, -1), PtI(1, -1), PtI(-1, 1), PtI(1, 1)>>
Rectangle == <<PtI(0, 0), PtI(4, 0), PtI(4, 3), PtI(0, 3)>>
Trapezoid == <<PtI(0, 0), PtI(4, 0), PtI(3, 2), PtI(1, 2)>>
Kite == <<PtI(1, 0), PtI(0, 3), PtI(-1, 0), PtI(0, -1)>>
Collinear == <<PtI(0, 0), PtI(1, 0), PtI(2, 0), PtI(3, 0)>>
Coincident == <<PtI(1, 1), PtI(1, 1), PtI(1, 1), PtI(1, 1)>>
Triangle == <<PtI(0, 0), PtI(2, 0), PtI(0, 2)>>
Five == <<PtI(0, 0), PtI(2, 0), PtI(2, 2), PtI(0, 2), PtI(1, 1)>>
Five0 == <<PtI(-1, -1), PtI(1, -1), PtI(1, 1), PtI(-1, 1), PtI(0, 0)>>

SrcCatalog ==
  { <<>>, Triangle, Square0, Square2, Rectangle, Collinear, Coincident, Five }
DstCatalog ==
  { Triangle, Square0, Square2, Twisted, Rectangle, Trapezoid, Kite,
    Coincident, Five, Five0 }

NoSolution == [null |-> TRUE]

InitDLT ==
  /\ dpc = "start"
  /\ src \in SrcCatalog
  /\ dst \in DstCatalog
  /\ AtA = Unset /\ AtB = Unset
  /\ mat = Unset /\ col = 0 /\ pivots = <<>> /\ hNorm = Unset /\ homography = Unset
  /\ PrimIdle
  /\ OptIdle
  /\ AuxIdle

DltArgs == <<src, dst>>
SolveArgs == <<AtA, AtB>>

\* lines 93-111: AtA and AtB, taken from the rows [AtA[i] ..., AtB[i]]
NormalMatrix(ne) == [i \in 1..Len(ne) |-> SubSeq(ne[i], 1, Len(ne))] \o <<>>
NormalVector(ne) == [i \in 1..Len(ne) |-> ne[i][Len(ne) + 1]] \o <<>>

\* line 24: mat = A.map((row, i) => [...row, B[i]]), rows of its own
Augmented(A, B) == [i \in 1..Len(A) |-> Append(A[i], B[i])] \o <<>>

\* line 59: too few points, or not as many destinations as sources
DltReturnNull ==
  /\ dpc = "start"
  /\ (Len(src) < 4 \/ Len(src) # Len(dst))
  /\ homography' = NoSolution
  /\ dpc' = "done"
  /\ UNCHANGED <<DltArgs, SolveArgs, mat, col, pivots, hNorm, primVars, optVars, auxVars>>

\* lines 62-111 and 23-24: normalize, build A and B, the normal equations,
\* and the augmented matrix of solveLinearSystem
DltBuild ==
  /\ dpc = "start"
  /\ ~(Len(src) < 4 \/ Len(src) # Len(dst))
  /\ \E ne \in {NormalEquations(RowsA(normalize(src).normPts, normalize(dst).normPts),
                                  RowsB(normalize(dst).normPts))} :
       /\ AtA' = NormalMatrix(ne)
       /\ AtB' = NormalVector(ne)
       /\ mat' = Augmented(NormalMatrix(ne), NormalVector(ne))
  /\ col' = 1
  /\ dpc' = "solve"
  /\ UNCHANGED <<DltArgs, pivots, hNorm, homography, primVars, optVars, auxVars>>

\* lines 26-34 and 114: the pivot of this column is too small; both functions
\* return null
DltSingular ==
  /\ dpc = "solve"
  /\ col <= Len(mat)
  /\ LET pivot == Pivoted(mat, col)[col][col]
     IN /\ PivotTooSmall(pivot)
        /\ pivots' = Append(pivots, pivot)
  /\ mat' = Pivoted(mat, col)
  /\ homography' = NoSolution
  /\ dpc' = "done"
  /\ UNCHANGED <<DltArgs, SolveArgs, col, hNorm, primVars, optVars, auxVars>>

\* lines 26-41 with mat sharing its rows with A, as after
\* A.map((row, i) => { row.push(B[i]); return row }) (mutant)
DltEliminate_sharedRows ==
  /\ dpc = "solve"
  /\ col <= Len(mat)
  /\ LET pivot == Pivoted(mat, col)[col][col]
     IN /\ ~PivotTooSmall(pivot)
        /\ pivots' = Append(pivots, pivot)
  /\ mat' = Eliminate(Pivoted(mat, col), col)
  /\ AtA' = mat'
  /\ col' = col + 1
  /\ UNCHANGED <<DltArgs, AtB, dpc, hNorm, homography, primVars, optVars, auxVars>>

\* lines 26-41: one pass of the elimination loop
DltEliminate ==
  /\ dpc = "solve"
  /\ col <= Len(mat)
  /\ LET pivot == Pivoted(mat, col)[col][col]
     IN /\ ~PivotTooSmall(pivot)
        /\ pivots' = Append(pivots, pivot)
  /\ mat' = Eliminate(Pivoted(mat, col), col)
  /\ col' = col + 1
  /\ UNCHANGED <<DltArgs, SolveArgs, dpc, hNorm, homography, primVars, optVars, auxVars>>

\* lines 44-52 and 113: back substitution
DltBackSubstitute ==
  /\ dpc = "solve"
  /\ col > Len(mat)
  /\ hNorm' = BackSubstitute(mat, Len(mat), Zeros(Len(mat)))
  /\ dpc' = "denormalize"
  /\ UNCHANGED <<DltArgs, SolveArgs, mat, col, pivots, homography, primVars, optVars, auxVars>>

\* lines 115-129
DltReturn ==
  /\ dpc = "denormalize"
  /\ homography' = Denormalize(hNorm, normalize(src), normalize(dst))
  /\ dpc' = "done"
  /\ UNCHANGED <<DltArgs, SolveArgs, mat, col, pivots, hNorm, primVars, optVars, auxVars>>

NextDLT ==
  \/ DltReturnNull
  \/ DltBuild
  \/ DltSingular
  \/ DltEliminate
  \/ DltBackSubstitute
  \/ DltReturn

SpecDLT == InitDLT /\ [][NextDLT]_vars


\* ======================================================================
\* invertMatrix3x3 and applyHomography (utils/math.ts): the round trip
\* ======================================================================
Sqrt2 == Sqrt(Q(2, 1))

InvMatrices ==
  { MatI(<<1, 0, 0, 0, 1, 0, 0, 0, 1>>),
    MatI(<<2, 0, 1, 0, 2, -1, 0, 0, 1>>),
    MatI(<<1, 2, 3, 4, 5, 6, 1, 1, 3>>),
    MatI(<<1, 0, 0, 0, 1, 0, 1, 0, -1>>),
    MatI(<<1, 2, 3, 4, 5, 6, 7, 8, 9>>),
    MatI(<<1, 0, 0, 0, 1, 0, 0, 0, 0>>),
    <<Sqrt2, Zero, One, Zero, One, Zero, Zero, Zero, One>>,
    <<Div(Sqrt2, Q(2, 1)), Neg(Div(Sqrt2, Q(2, 1))), Zero,
      Div(Sqrt2, Q(2, 1)), Div(Sqrt2, Q(2, 1)), Zero, Zero, Zero, One>> }

InvPoints == {PtI(0, 0), PtI(1, 2), PtI(-2, 1), Pt(Q(3, 2), Q(1, 2)), PtI(1, 0)}

InitInv ==
  /\ ipc = "start"
  /\ iH \in InvMatrices
  /\ iPt \in InvPoints
  /\ iInv = Unset /\ iFwd = Origin /\ iBack = Origin
  /\ PrimIdle
  /\ OptIdle
  /\ DltIdle
  /\ McIdle
  /\ LcgIdle
  /\ GprIdle
  /\ AppIdle
  /\ UiIdle
  /\ DescentIdle

InvArgs == <<iH, iPt>>
NotInv == <<primVars, optVars, dltVars, mcVars, lcgVars, gprVars, appVars,
           uiVars, descentVars>>

\* invertMatrix3x3(H)
InvInvert ==
  /\ ipc = "start"
  /\ iInv' = invertMatrix3x3(iH)
  /\ ipc' = IF invertMatrix3x3(iH) = NoInverse THEN "done" ELSE "forward"
  /\ UNCHANGED <<InvArgs, iFwd, iBack, NotInv>>

\* applyHomography(p, H)
InvForward ==
  /\ ipc = "forward"
  /\ iFwd' = applyHomography_math(iPt, iH)
  /\ ipc' = "back"
  /\ UNCHANGED <<InvArgs, iInv, iBack, NotInv>>

\* applyHomography(applyHomography(p, H), Hinv)
InvBack ==
  /\ ipc = "back"
  /\ iBack' = applyHomography_math(iFwd, iInv)
  /\ ipc' = "done"
  /\ UNCHANGED <<InvArgs, iInv, iFwd, NotInv>>

NextInv ==
  \/ InvInvert
  \/ InvForward
  \/ InvBack

SpecInv == InitInv /\ [][NextInv]_vars

\* ======================================================================
\* Specification of runMonteCarlo: calls one after another, each running the
\* thirty seeds in order
\* ======================================================================
MaxCalls == 3

Threw == [threw |-> TRUE]

McBase ==
  [pA |-> PtI(0, 0), pB |-> PtI(4, 3), H |-> MatI(<<1, 0, 0, 0, 1, 0, 0, 0, 1>>),
   k1 |-> Zero, center |-> PtI(2, 2), diag |-> Q(5, 1),
   iterations |-> 2, sigma |-> Q(2, 1)]

McArgSets ==
  { McBase,
    [McBase EXCEPT !.iterations = 0],
    [McBase EXCEPT !.iterations = 1,
                   !.H = MatI(<<2, 0, 1, 0, 2, 0, 0, 0, 1>>), !.sigma = Q(1, 2)] }

InitMC ==
  /\ mpc = "idle" /\ mArgs = Unset /\ seedIdx = 0 /\ currentSeed = <<0, 0>>
  /\ ensembleResults = <<>> /\ ensembleDistances = <<>> /\ mcLog = <<>>
  /\ PrimIdle
  /\ OptIdle
  /\ DltIdle
  /\ InvIdle
  /\ LcgIdle
  /\ GprIdle
  /\ AppIdle
  /\ UiIdle
  /\ DescentIdle

NotMC == <<primVars, optVars, dltVars, invVars, lcgVars, gprVars, appVars,
           uiVars, descentVars>>

\* line 276: runMonteCarlo(pA, pB, H, k1, center, diag, iterations, sigma)
McCall ==
  /\ mpc = "idle"
  /\ Len(mcLog) < MaxCalls
  /\ \E a \in McArgSets : mArgs' = a
  /\ mpc' = "seeds"
  /\ seedIdx' = 0
  /\ ensembleResults' = <<>>
  /\ ensembleDistances' = <<>>
  /\ UNCHANGED <<currentSeed, mcLog, NotMC>>

\* lines 289-311: the body of ENSEMBLE_SEEDS.map for the next seed; with no
\* distances the reduce of line 307 throws
McSeed ==
  /\ mpc = "seeds"
  /\ seedIdx < EnsembleSize
  /\ LET run == LocalDistances(mArgs, LoopStart(SeedStart(seedIdx, currentSeed)))
     IN /\ currentSeed' = run.state
        /\ IF run.distances = <<>>
           THEN /\ mpc' = "idle"
                /\ mcLog' = Append(mcLog, [args |-> mArgs, ret |-> Threw])
                /\ UNCHANGED <<seedIdx, ensembleResults, ensembleDistances>>
           ELSE /\ ensembleResults' =
                     Append(ensembleResults, SeedResult(run.distances, mArgs.iterations))
                /\ ensembleDistances' = Append(ensembleDistances, run.distances)
                /\ seedIdx' = seedIdx + 1
                /\ UNCHANGED <<mpc, mcLog>>
  /\ UNCHANGED <<mArgs, NotMC>>

\* lines 314-317: the return
McReturn ==
  /\ mpc = "seeds"
  /\ seedIdx = EnsembleSize
  /\ mcLog' = Append(mcLog, [args |-> mArgs, ret |-> EnsembleMean(ensembleResults)])
  /\ mpc' = "idle"
  /\ UNCHANGED <<mArgs, seedIdx, currentSeed, ensembleResults, ensembleDistances, NotMC>>

NextMC == McCall \/ McSeed \/ McReturn

SpecMC == InitMC /\ [][NextMC]_vars

\* ======================================================================
\* Specification of the noise generator of runMonteCarlo, draw by draw
\* ======================================================================
MaxDraws == 4

Sigmas == {Zero, Q(1, 2), Q(2, 1)}

InitLCG ==
  /\ lpc = "new" /\ lSeed = 0 /\ lSigma = Zero /\ lPrev = <<0, 0>>
  /\ lProduct = <<0, 0, 0, 0>> /\ lState = <<0, 0>> /\ lNoise = Zero /\ lDraws = 0
  /\ PrimIdle
  /\ OptIdle
  /\ DltIdle
  /\ InvIdle
  /\ McIdle
  /\ GprIdle
  /\ AppIdle
  /\ UiIdle
  /\ DescentIdle

NotLCG == <<primVars, optVars, dltVars, invVars, mcVars, gprVars, appVars,
           uiVars, descentVars>>

\* lines 289-290: the callback of ENSEMBLE_SEEDS.map starts a generator
LcgStart ==
  /\ lpc = "new"
  /\ \E seedValue \in 0..(EnsembleSize - 1) :
       /\ lSeed' = seedValue
       /\ lState' = SeedStart(seedValue, lState)
  /\ \E sigma \in Sigmas : lSigma' = sigma
  /\ lpc' = "drawing"
  /\ UNCHANGED <<lPrev, lProduct, lNoise, lDraws, NotLCG>>

\* lines 293-294 and 299: one call of noise()
LcgDraw ==
  /\ lpc = "drawing"
  /\ lDraws < MaxDraws
  /\ lPrev' = lState
  /\ lProduct' = AsDouble(LcgProduct(lState))
  /\ lState' = NextSeed(lState)
  /\ lNoise' = Noise(NextSeed(lState), lSigma)
  /\ lDraws' = lDraws + 1
  /\ UNCHANGED <<lpc, lSeed, lSigma, NotLCG>>

NextLCG == LcgStart \/ LcgDraw

SpecLCG == InitLCG /\ [][NextLCG]_vars

\* ======================================================================
\* Specification of predictBiasRatio: calls one after another
\* ======================================================================
MaxPredictions == 2

Entry(mx, my, trueDist, measuredDist) ==
  [midpoint |-> PtI(mx, my), trueDist |-> Q(trueDist, 1), measuredDist |-> Q(measuredDist, 1)]

\* histories as calculateMeasurement builds them (trueDist > 0, measuredDist >= 0)
Histories ==
  { <<>>,
    <<Entry(1600, 800, 2, 1)>>,
    <<Entry(1600, 0, 2, 1)>>,
    <<Entry(0, 0, 1, 2)>>,
    <<Entry(4000, 0, 2, 1)>>,
    <<Entry(0, 0, 2, 1), Entry(800, 0, 1, 0)>>,
    <<Entry(1600, 800, 2, 1), Entry(1600, 800, 1, 2)>>,
    <<Entry(0, 0, 3, 1), Entry(0, 0, 1, 4), Entry(800, 0, 1, 1)>> }

Midpoints == {PtI(0, 0), PtI(800, 0)}

InitGPR ==
  /\ gpc = "idle" /\ gMidpoint = Origin /\ gHistory = <<>> /\ gIdx = 0
  /\ totalWeight = Zero /\ weightedRatio = Zero /\ gLog = <<>>
  /\ PrimIdle
  /\ OptIdle
  /\ DltIdle
  /\ InvIdle
  /\ McIdle
  /\ LcgIdle
  /\ AppIdle
  /\ UiIdle
  /\ DescentIdle

NotGPR == <<primVars, optVars, dltVars, invVars, mcVars, lcgVars, appVars,
           uiVars, descentVars>>

Logged(ret) ==
  Append(gLog, [midpoint |-> gMidpoint', history |-> gHistory',
                totalWeight |-> totalWeight', ret |-> ret])

\* lines 324-333: the call; an empty history returns at line 329
GprCall ==
  /\ gpc = "idle"
  /\ Len(gLog) < MaxPredictions
  /\ \E midpoint \in Midpoints : gMidpoint' = midpoint
  /\ \E history \in Histories : gHistory' = history
  /\ gIdx' = 0
  /\ totalWeight' = Zero
  /\ weightedRatio' = Zero
  /\ IF gHistory' = <<>>
     THEN gpc' = "idle" /\ gLog' = Logged(EmptyHistoryResult)
     ELSE gpc' = "forEach" /\ UNCHANGED gLog
  /\ UNCHANGED NotGPR

\* lines 335-340: the callback of history.forEach for the next entry
GprEntry ==
  /\ gpc = "forEach"
  /\ gIdx < Len(gHistory)
  /\ LET entry == gHistory[gIdx + 1]
         weight == KernelWeight(gMidpoint, entry)
     IN /\ weightedRatio' = Add(weightedRatio, Mul(EntryRatio(entry), weight))
        /\ totalWeight' = Add(totalWeight, weight)
  /\ gIdx' = gIdx + 1
  /\ UNCHANGED <<gpc, gMidpoint, gHistory, gLog, NotGPR>>

\* lines 342-349: the return
GprReturn ==
  /\ gpc = "forEach"
  /\ gIdx = Len(gHistory)
  /\ gpc' = "idle"
  /\ UNCHANGED <<gMidpoint, gHistory, gIdx, totalWeight, weightedRatio, NotGPR>>
  /\ gLog' = Logged(BiasResult(totalWeight, weightedRatio))

NextGPR == GprCall \/ GprEntry \/ GprReturn

SpecGPR == InitGPR /\ [][NextGPR]_vars

\* ======================================================================
\* Specification of the measurement archive: a session of the calibrated
\* application in which a measurement is calculated, a file of measurements
\* is imported and an entry of the archive is edited, each once, in any order
\* ======================================================================
Null == [null |-> TRUE]

ValidationLine(sx, sy, ex, ey, trueLength, defined) ==
  [start |-> PtI(sx, sy), end |-> PtI(ex, ey), trueLength |-> Q(trueLength, 1),
   defined |-> defined]

AppMatrices ==
  { <<One, Zero, Zero, Zero, One, Zero, Zero, Zero, One>>,
    <<Q(2, 1), Zero, Zero, Zero, Q(2, 1), Zero, Zero, One, One>> }

AppValidations ==
  { <<>>,
    <<ValidationLine(0, 0, 4, 0, 5, TRUE), ValidationLine(0, 0, 0, 3, 2, FALSE),
      ValidationLine(0, 3, 4, 3, 3, TRUE)>> }

AppPairs ==
  { [pointA |-> PtI(0, 0), pointB |-> PtI(4, 3)],
    [pointA |-> PtI(1, 0), pointB |-> PtI(4, 3)] }

\* the text typed into a coordinate field of the archive
TypedCoordinates == {Q(0, 1)}

\* the rows of the imported file after the header: id, name, u1, v1, u2, v2
CsvFile ==
  << [id |-> <<"a", 0>>, name |-> <<"A", 0>>,
      u1 |-> Q(0, 1), v1 |-> Q(0, 1), u2 |-> Q(4, 1), v2 |-> Q(3, 1)],
     [id |-> <<"b", 0>>, name |-> <<"B", 0>>,
      u1 |-> NotANumber, v1 |-> Q(0, 1), u2 |-> Q(4, 1), v2 |-> Q(3, 1)] >>

\* sessions where a measurement cannot be taken: no matrix, an image that
\* loaded with width 0, a point missing
AppBlocked ==
  << [homographyMatrix |-> Null, imgDims |-> [w |-> Q(4, 1), h |-> Q(3, 1)],
      measurements |-> [pointA |-> PtI(0, 0), pointB |-> PtI(4, 3)]],
     [homographyMatrix |-> <<One, Zero, Zero, Zero, One, Zero, Zero, Zero, One>>,
      imgDims |-> [w |-> Zero, h |-> Zero],
      measurements |-> [pointA |-> PtI(0, 0), pointB |-> PtI(4, 3)]],
     [homographyMatrix |-> <<One, Zero, Zero, Zero, One, Zero, Zero, Zero, One>>,
      imgDims |-> [w |-> Q(4, 1), h |-> Q(3, 1)],
      measurements |-> [pointA |-> PtI(0, 0), pointB |-> Null]],
     [homographyMatrix |-> <<One, Zero, Zero, Zero, One, Zero, Zero, Zero, One>>,
      imgDims |-> [w |-> Q(4, 1), h |-> Q(3, 1)],
      measurements |-> [pointA |-> Null, pointB |-> Null]] >>

InitApp ==
  /\ \/ /\ homographyMatrix \in AppMatrices
        /\ imgDims = [w |-> Q(4, 1), h |-> Q(3, 1)]
        /\ measurements \in AppPairs
     \/ \E i \in DOMAIN AppBlocked :
          /\ homographyMatrix = AppBlocked[i].homographyMatrix
          /\ imgDims = AppBlocked[i].imgDims
          /\ measurements = AppBlocked[i].measurements
  /\ lensK1 = Zero
  /\ validationLines \in AppValidations
  /\ calcResult = Null
  /\ measurementArchive = <<>>
  /\ handlersRun = {}
  /\ lastHandler = "none"
  /\ UiIdle
  /\ DescentIdle
  /\ PrimIdle
  /\ OptIdle
  /\ DltIdle
  /\ InvIdle
  /\ McIdle
  /\ LcgIdle
  /\ GprIdle

NotApp == <<primVars, optVars, dltVars, invVars, mcVars, lcgVars, gprVars, descentVars>>

\* the fields from producedBy on are not in the code: the handler that
\* computed the entry and its locals biasRes.ratio, mc.stdDev, sigmaGPR,
\* biasRes.confidence and biasRes.localSigma
ArchiveEntry(id, name, pA, pB, v, color, producedBy) ==
  [id |-> id, name |-> name, pointA |-> pA, pointB |-> pB,
   rawDist |-> v.rawDist, correctedDist |-> v.correctedDist,
   uncertainty |-> v.uncertainty, intervals |-> v.intervals,
   visible |-> TRUE, color |-> color, producedBy |-> producedBy,
   ratio |-> v.ratio, mcStdDev |-> v.mcStdDev, sigmaGPR |-> v.sigmaGPR,
   confidence |-> v.confidence, localSigma |-> v.localSigma]

\* App.tsx 222 without the test of the width, as canCalculate of line 458
\* (mutant)
CannotMeasure_ignoresWidth(H, m, dims) ==
  H = Null \/ m.pointA = Null \/ m.pointB = Null

\* App.tsx 222: !homographyMatrix || !pointA || !pointB || !imgDims.w
CannotMeasure(H, m, dims) ==
  H = Null \/ m.pointA = Null \/ m.pointB = Null \/ IsZero(dims.w) \/ IsNaN(dims.w)

\* App.tsx 221-270: calculateMeasurement; the random id is written as the
\* position of the entry
calculateMeasurement ==
  /\ "calculateMeasurement" \notin handlersRun
  /\ IF CannotMeasure(homographyMatrix, measurements, imgDims)
     THEN UNCHANGED <<calcResult, measurementArchive>>
     ELSE \E v \in {CalculateMeasurementValues(measurements.pointA, measurements.pointB,
                       homographyMatrix, lensK1, imgDims, validationLines)} :
          LET n == Len(measurementArchive) + 1
          IN /\ calcResult' =
                  [dist |-> v.correctedDist, rawDist |-> v.rawDist,
                   biasCorrection |-> Mul(Sub(v.ratio, One), Q(100, 1)),
                   uncertainty |-> v.uncertainty, intervals |-> v.intervals]
             /\ measurementArchive' =
                  Append(measurementArchive,
                         ArchiveEntry(<<"random", n>>, <<"Measurement", n>>,
                                      measurements.pointA, measurements.pointB, v,
                                      "gradient", "calculateMeasurement"))
  /\ handlersRun' = handlersRun \cup {"calculateMeasurement"}
  /\ lastHandler' = "calculateMeasurement"
  /\ UNCHANGED <<homographyMatrix, imgDims, lensK1, validationLines, measurements, uiVars,
                 NotApp>>

\* { ...entry, ...updates }
Merge(entry, updates) ==
  [f \in DOMAIN entry |-> IF f \in DOMAIN updates THEN updates[f] ELSE entry[f]]

\* Sidebar.tsx 685: the update the archive list sends when P1 x is typed
ArchiveUpdates(entry) ==
  {[pointA |-> Pt(ParseNumber(t), entry.pointA.y)] : t \in TypedCoordinates}

\* Sidebar.tsx 329-332: the recomputed fields assigned to the merged entry
Recomputed(merged, v) ==
  Merge(merged, [rawDist |-> v.rawDist,
                 correctedDist |-> v.correctedDist,
                 uncertainty |-> v.uncertainty,
                 intervals |-> v.intervals,
                 producedBy |-> "handleUpdateArchiveEntry",
                 ratio |-> v.ratio,
                 mcStdDev |-> v.mcStdDev,
                 sigmaGPR |-> v.sigmaGPR,
                 confidence |-> v.confidence,
                 localSigma |-> v.localSigma])

\* Sidebar.tsx 291-338: handleUpdateArchiveEntry(id, updates)
handleUpdateArchiveEntry ==
  /\ "handleUpdateArchiveEntry" \notin handlersRun
  /\ \E n \in 1..Len(measurementArchive) :
       \E updates \in ArchiveUpdates(measurementArchive[n]) :
         LET id == measurementArchive[n].id
             found == CHOOSE m \in 1..Len(measurementArchive) :
                        /\ measurementArchive[m].id = id
                        /\ \A l \in 1..(m - 1) : measurementArchive[l].id # id
             geometric == "pointA" \in DOMAIN updates \/ "pointB" \in DOMAIN updates
         IN \E merged \in {Merge(measurementArchive[found], updates)} :
              IF geometric /\ (homographyMatrix = Null \/ IsZero(imgDims.w))
              THEN UNCHANGED measurementArchive
              ELSE \E updatedEntry \in
                       {IF geometric
                        THEN Recomputed(merged,
                               UpdateArchiveEntryValues(merged.pointA, merged.pointB,
                                 homographyMatrix, lensK1, imgDims, validationLines))
                        ELSE merged} :
                     measurementArchive' =
                       [m \in 1..Len(measurementArchive) |->
                          IF measurementArchive[m].id = id THEN updatedEntry
                          ELSE measurementArchive[m]]
  /\ handlersRun' = handlersRun \cup {"handleUpdateArchiveEntry"}
  /\ lastHandler' = "handleUpdateArchiveEntry"
  /\ UNCHANGED <<homographyMatrix, imgDims, lensK1, validationLines, measurements,
                 calcResult, uiVars, NotApp>>

\* Sidebar.tsx 350-388: the entry of one row
ImportedEntry(row) ==
  LET pA == Pt(ParseNumber(row.u1), ParseNumber(row.v1))
      pB == Pt(ParseNumber(row.u2), ParseNumber(row.v2))
  IN ArchiveEntry(row.id, row.name, pA, pB,
                  ImportRowValues(pA, pB, homographyMatrix, lensK1, imgDims,
                                  validationLines),
                  "#FF0000", "handleImportMeasurementsCSV")

\* Sidebar.tsx 340-392: handleImportMeasurementsCSV with the file read
handleImportMeasurementsCSV ==
  /\ "handleImportMeasurementsCSV" \notin handlersRun
  /\ homographyMatrix # Null /\ ~IsZero(imgDims.w)
  /\ measurementArchive' =
       measurementArchive \o [n \in 1..Len(CsvFile) |-> ImportedEntry(CsvFile[n])]
  /\ handlersRun' = handlersRun \cup {"handleImportMeasurementsCSV"}
  /\ lastHandler' = "handleImportMeasurementsCSV"
  /\ UNCHANGED <<homographyMatrix, imgDims, lensK1, validationLines, measurements,
                 calcResult, uiVars, NotApp>>

NextApp == calculateMeasurement \/ handleUpdateArchiveEntry \/ handleImportMeasurementsCSV

SpecApp == InitApp /\ [][NextApp]_vars

\* ======================================================================
\* App.tsx: the image gallery
\* ======================================================================
\* line 145: files beyond the first 50 of a selection are dropped
UploadLimit == 50
\* the handleFileUpload calls of a session
MaxUploads == 3

\* an image file: data stands for the data URL, written as the size the image
\* decodes to
ImageFile(name, width, height) ==
  [name |-> name, data |-> [w |-> Q(width, 1), h |-> Q(height, 1)]]

\* a selection of n files
Selection(n) == [k \in 1..n |-> ImageFile(<<"img", k>>, 4, 3)] \o <<>>

\* the selections of the file dialog
Selections == {Selection(0), Selection(1), Selection(UploadLimit + 1)}

\* Array.from(files).slice(0, 50)
Slice(files, limit) == SubSeq(files, 1, IF Len(files) < limit THEN Len(files) ELSE limit)

\* lines 58-60: the data of the active image, or null
Image(gallery, idx) ==
  IF idx >= 0 /\ idx + 1 <= Len(gallery) THEN gallery[idx + 1].data ELSE Null

notGallery == <<homographyMatrix, lensK1, validationLines, measurements, calcResult,
                measurementArchive, handlersRun, mode, calibrationLines,
                calibrationStatus, pendingCalibrations, savedDatasets, effectDeps,
                computations, matrixFrom, clearedAt, pendingReads, userActions, NotApp>>

\* lines 142-153: handleFileUpload up to the await; the continuation keeps the
\* activeImageIdx of the render the handler belongs to
handleFileUpload(files) ==
  /\ uploads < MaxUploads
  /\ uploads' = uploads + 1
  /\ IF Len(files) > 0
     THEN pendingUploads' = Append(pendingUploads,
                                   [newImages |-> Slice(files, UploadLimit),
                                    activeImageIdx |-> activeImageIdx])
     ELSE UNCHANGED pendingUploads
  /\ lastHandler' = "handleFileUpload"
  /\ UNCHANGED <<imageGallery, activeImageIdx, imgDims, notGallery>>

\* lines 154-160: the files of one waiting call are read
handleFileUploadResumes ==
  \E n \in 1..Len(pendingUploads) :
    /\ imageGallery' = imageGallery \o pendingUploads[n].newImages
    /\ activeImageIdx' = IF pendingUploads[n].activeImageIdx = -1 THEN 0
                         ELSE activeImageIdx
    /\ pendingUploads' = [k \in 1..(Len(pendingUploads) - 1) |->
                            IF k < n THEN pendingUploads[k] ELSE pendingUploads[k + 1]]
    /\ lastHandler' = "handleFileUpload: resumed"
    /\ UNCHANGED <<imgDims, uploads, notGallery>>

\* the options chosen: the first and the last image of the gallery
ChosenOptions(gallery) == {idx \in {0, Len(gallery) - 1} : 0 <= idx /\ idx < Len(gallery)}

\* Sidebar.tsx 492-495: an option of "Select Active Image" is chosen
SelectActiveImage ==
  \E idx \in ChosenOptions(imageGallery) :
    /\ activeImageIdx' = idx
    /\ lastHandler' = "setActiveImageIdx"
    /\ UNCHANGED <<imageGallery, pendingUploads, uploads, imgDims, notGallery>>

\* lines 63-69: the effect of a changed image, and the onload of its Image
ImageLoads ==
  /\ Image(imageGallery, activeImageIdx) # Null
  /\ imgDims # Image(imageGallery, activeImageIdx)
  /\ imgDims' = Image(imageGallery, activeImageIdx)
  /\ lastHandler' = "img.onload"
  /\ UNCHANGED <<imageGallery, activeImageIdx, pendingUploads, uploads, notGallery>>

\* App.tsx 9-55: the state of a new session
InitSession ==
  /\ homographyMatrix = Null
  /\ imgDims = [w |-> Zero, h |-> Zero]
  /\ lensK1 = Zero
  /\ validationLines = <<>>
  /\ measurements = [pointA |-> Null, pointB |-> Null]
  /\ calcResult = Null
  /\ measurementArchive = <<>>
  /\ handlersRun = {}
  /\ lastHandler = "none"
  /\ mode = "CALIBRATE"
  /\ calibrationLines = <<>>
  /\ calibrationStatus = "idle"
  /\ pendingCalibrations = <<>>
  /\ savedDatasets = [name \in {} |-> <<>>]
  /\ imageGallery = <<>>
  /\ activeImageIdx = -1
  /\ pendingUploads = <<>>
  /\ uploads = 0
  /\ effectDeps = Null
  /\ computations = 0
  /\ matrixFrom = 0
  /\ clearedAt = 0
  /\ pendingReads = <<>>
  /\ userActions = 0
  /\ DescentIdle
  /\ PrimIdle
  /\ OptIdle
  /\ DltIdle
  /\ InvIdle
  /\ McIdle
  /\ LcgIdle
  /\ GprIdle

InitGallery == InitSession

NextGallery ==
  \/ \E files \in Selections : handleFileUpload(files)
  \/ handleFileUploadResumes
  \/ SelectActiveImage
  \/ ImageLoads

SpecGallery == InitGallery /\ [][NextGallery]_vars

\* ======================================================================
\* App.tsx, Sidebar.tsx: the calibration session
\* ======================================================================
\* the handler calls of a session
MaxActions == 3
\* the computeCalibration calls of a session that set a timer
MaxComputations == 2

Modes == {"CALIBRATE", "VALIDATE", "MEASURE"}

\* the names typed into "Dataset name"
DatasetNames == {"site"}

\* the rows of the file after the header: id, x1, y1, x2, y2, length, angle
LinesCsv ==
  << [id |-> "L1", x1 |-> Q(0, 1), y1 |-> Q(0, 1), x2 |-> Q(4, 1), y2 |-> Q(0, 1),
      length |-> Q(4, 1), angle |-> Q(90, 1)],
     [id |-> "L2", x1 |-> Q(0, 1), y1 |-> Q(0, 1), x2 |-> Q(0, 1), y2 |-> Q(3, 1),
      length |-> Q(3, 1), angle |-> NotANumber] >>

\* parseFloat(angle) || 0; the angles of the model are whole degrees, kept as
\* integers
ParseAngle(field) ==
  IF IsNaN(ParseNumber(field)) \/ IsZero(ParseNumber(field)) THEN 0
  ELSE ParseNumber(field)[1] \div ParseNumber(field)[2]

\* Sidebar.tsx 267-276: the line of one row
ParsedLine(row) ==
  [id |-> row.id,
   start |-> Pt(ParseNumber(row.x1), ParseNumber(row.y1)),
   end |-> Pt(ParseNumber(row.x2), ParseNumber(row.y2)),
   trueLength |-> OrElse(ParseNumber(row.length), One),
   angle |-> ParseAngle(row.angle),
   defined |-> TRUE]

ParsedLines(content) == [n \in 1..Len(content) |-> ParsedLine(content[n])] \o <<>>

\* JSON.parse(JSON.stringify(lines)): a number that is NaN comes back as null
JsonNumber(x) == IF IsNaN(x) THEN Null ELSE x
JsonCopy(ls) ==
  [n \in 1..Len(ls) |->
     [ls[n] EXCEPT !.start = Pt(JsonNumber(ls[n].start.x), JsonNumber(ls[n].start.y)),
                   !.end = Pt(JsonNumber(ls[n].end.x), JsonNumber(ls[n].end.y)),
                   !.trueLength = JsonNumber(ls[n].trueLength)]] \o <<>>

\* lines.map(l => l.id === id ? { ...l, [field]: value } : l)
EditLine(ls, id, field, value) ==
  [n \in 1..Len(ls) |->
     IF ls[n].id = id THEN [ls[n] EXCEPT ![field] = value] ELSE ls[n]] \o <<>>

\* lines.map(l => l.id === id ? { ...l, [pointType]: { ...l[pointType], [axis]: value } } : l)
EditPoint(ls, id, pointType, axis, value) ==
  [n \in 1..Len(ls) |->
     IF ls[n].id = id THEN [ls[n] EXCEPT ![pointType][axis] = value] ELSE ls[n]] \o <<>>

\* lines.filter(l => l.id !== id)
RECURSIVE WithoutLine(_, _)
WithoutLine(ls, id) ==
  IF ls = <<>> THEN <<>>
  ELSE IF Head(ls).id # id THEN <<Head(ls)>> \o WithoutLine(Tail(ls), id)
  ELSE WithoutLine(Tail(ls), id)

\* lines.slice(0, -1)
DropLast(ls) == IF ls = <<>> THEN <<>> ELSE SubSeq(ls, 1, Len(ls) - 1)

\* the line whose inputs the user edits: the first of the list
EditedIds(ls) == IF ls = <<>> THEN {} ELSE {ls[1].id}

\* the values typed into a coordinate, length or angle input
TypedValues == {Q(1, 1)}
TypedAngles == {Q(45, 1)}

galleryVars == <<imageGallery, activeImageIdx, pendingUploads, uploads, imgDims>>
calibVars == <<lensK1, calibrationStatus, pendingCalibrations, computations,
               homographyMatrix, matrixFrom, clearedAt>>
measureVars == <<measurements, calcResult, measurementArchive, handlersRun>>

\* one more handler call by the user
UserAction(name) ==
  /\ userActions < MaxActions
  /\ userActions' = userActions + 1
  /\ lastHandler' = name

\* Sidebar.tsx 258-262 and 284-285: handleImportCSV up to readAsText; the
\* callback keeps the mode of the render the handler belongs to
handleImportCSV(file) ==
  /\ mode \in {"CALIBRATE", "VALIDATE"}
  /\ UserAction("handleImportCSV")
  /\ pendingReads' = Append(pendingReads, [content |-> file, mode |-> mode])
  /\ UNCHANGED <<calibrationLines, validationLines, mode, savedDatasets, effectDeps,
                 galleryVars, calibVars, measureVars, NotApp>>

\* Sidebar.tsx 263-283: reader.onload
ReaderOnload ==
  \E n \in 1..Len(pendingReads) :
    /\ calibrationLines' = IF pendingReads[n].mode = "CALIBRATE"
                           THEN ParsedLines(pendingReads[n].content)
                           ELSE calibrationLines
    /\ validationLines' = IF pendingReads[n].mode = "VALIDATE"
                          THEN ParsedLines(pendingReads[n].content)
                          ELSE validationLines
    /\ pendingReads' = [k \in 1..(Len(pendingReads) - 1) |->
                          IF k < n THEN pendingReads[k] ELSE pendingReads[k + 1]] \o <<>>
    /\ lastHandler' = "reader.onload"
    /\ UNCHANGED <<mode, savedDatasets, effectDeps, userActions, galleryVars, calibVars,
                   measureVars, NotApp>>

\* App.tsx 164-178: handleManualCoordUpdate
handleManualCoordUpdate(type, id, pointType, axis, value) ==
  /\ UserAction("handleManualCoordUpdate")
  /\ calibrationLines' = IF type = "CALIBRATE"
                         THEN EditPoint(calibrationLines, id, pointType, axis, value)
                         ELSE calibrationLines
  /\ validationLines' = IF type = "VALIDATE"
                        THEN EditPoint(validationLines, id, pointType, axis, value)
                        ELSE validationLines
  /\ measurements' = IF type = "MEASURE"
                     THEN [measurements EXCEPT ![pointType][axis] = value]
                     ELSE measurements
  /\ UNCHANGED <<calcResult, measurementArchive, handlersRun, mode, savedDatasets,
                 effectDeps, pendingReads, galleryVars, calibVars, NotApp>>

\* Sidebar.tsx 584-585, 610-611 and the MEASURE panel: the coordinate inputs
\* call onManualCoordUpdate with the mode shown; here the x of the first point
CoordinateTyped ==
  \E value \in TypedValues :
    \/ /\ mode = "CALIBRATE"
       /\ \E id \in EditedIds(calibrationLines) :
            handleManualCoordUpdate("CALIBRATE", id, "start", "x", ParseNumber(value))
    \/ /\ mode = "VALIDATE"
       /\ \E id \in EditedIds(validationLines) :
            handleManualCoordUpdate("VALIDATE", id, "start", "x", ParseNumber(value))
    \/ /\ mode = "MEASURE"
       /\ measurements.pointA # Null
       /\ handleManualCoordUpdate("MEASURE", "", "pointA", "x", ParseNumber(value))

\* Sidebar.tsx 590: onChange of "True Len"
TrueLengthTyped ==
  /\ mode = "CALIBRATE"
  /\ \E id \in EditedIds(calibrationLines), value \in TypedValues :
       calibrationLines' = EditLine(calibrationLines, id, "trueLength",
                                    OrElse(ParseNumber(value), Zero))
  /\ UserAction("trueLength.onChange")
  /\ UNCHANGED <<validationLines, mode, savedDatasets, effectDeps, pendingReads,
                 galleryVars, calibVars, measureVars, NotApp>>

\* Sidebar.tsx 591: onChange of "Angle"
AngleTyped ==
  /\ mode = "CALIBRATE"
  /\ \E id \in EditedIds(calibrationLines), value \in TypedAngles :
       calibrationLines' = EditLine(calibrationLines, id, "angle", ParseAngle(value))
  /\ UserAction("angle.onChange")
  /\ UNCHANGED <<validationLines, mode, savedDatasets, effectDeps, pendingReads,
                 galleryVars, calibVars, measureVars, NotApp>>

\* App.tsx 447 with the calibration discarded when a line is deleted (mutant)
onDeleteLine_discardsMatrix ==
  /\ mode = "CALIBRATE"
  /\ \E id \in EditedIds(calibrationLines) :
       calibrationLines' = WithoutLine(calibrationLines, id)
  /\ homographyMatrix' = Null
  /\ UserAction("onDeleteLine")
  /\ UNCHANGED <<validationLines, mode, savedDatasets, effectDeps, pendingReads,
                 galleryVars, lensK1, calibrationStatus, pendingCalibrations, computations,
                 matrixFrom, clearedAt, measureVars, NotApp>>

\* App.tsx 447: onDeleteLine(id)
onDeleteLine ==
  /\ mode = "CALIBRATE"
  /\ \E id \in EditedIds(calibrationLines) :
       calibrationLines' = WithoutLine(calibrationLines, id)
  /\ UserAction("onDeleteLine")
  /\ UNCHANGED <<validationLines, mode, savedDatasets, effectDeps, pendingReads,
                 galleryVars, calibVars, measureVars, NotApp>>

\* App.tsx 418-431: undoLastPoint
undoLastPoint ==
  /\ UserAction("undoLastPoint")
  /\ calibrationLines' = IF mode = "CALIBRATE" THEN DropLast(calibrationLines)
                         ELSE calibrationLines
  /\ validationLines' = IF mode = "VALIDATE" THEN DropLast(validationLines)
                        ELSE validationLines
  /\ measurements' = IF mode \in {"CALIBRATE", "VALIDATE"} THEN measurements
                     ELSE IF measurements.pointB # Null
                          THEN [measurements EXCEPT !.pointB = Null]
                     ELSE IF measurements.pointA # Null
                          THEN [measurements EXCEPT !.pointA = Null]
                     ELSE measurements
  /\ calcResult' = Null
  /\ UNCHANGED <<measurementArchive, handlersRun, mode, savedDatasets, effectDeps,
                 pendingReads, galleryVars, calibVars, NotApp>>

\* Sidebar.tsx 146-154: handleSavePoints
handleSavePoints(datasetName) ==
  /\ mode \in {"CALIBRATE", "VALIDATE"}
  /\ UserAction("handleSavePoints")
  /\ savedDatasets' =
       [name \in DOMAIN savedDatasets \cup {datasetName} |->
          IF name = datasetName
          THEN JsonCopy(IF mode = "CALIBRATE" THEN calibrationLines ELSE validationLines)
          ELSE savedDatasets[name]]
  /\ UNCHANGED <<calibrationLines, validationLines, mode, effectDeps, pendingReads,
                 galleryVars, calibVars, measureVars, NotApp>>

\* Sidebar.tsx 156-164: handleLoadPoints
handleLoadPoints(selectedDataset) ==
  /\ mode \in {"CALIBRATE", "VALIDATE"}
  /\ UserAction("handleLoadPoints")
  /\ IF selectedDataset \notin DOMAIN savedDatasets
     THEN UNCHANGED <<calibrationLines, validationLines>>
     ELSE /\ calibrationLines' = IF mode = "CALIBRATE" THEN savedDatasets[selectedDataset]
                                 ELSE calibrationLines
          /\ validationLines' = IF mode = "VALIDATE" THEN savedDatasets[selectedDataset]
                                ELSE validationLines
  /\ UNCHANGED <<mode, savedDatasets, effectDeps, pendingReads, galleryVars, calibVars,
                 measureVars, NotApp>>

\* App.tsx 439: setMode of the Sidebar
setMode(m) ==
  /\ UserAction("setMode")
  /\ mode' = m
  /\ calcResult' = Null
  /\ UNCHANGED <<calibrationLines, validationLines, measurements, measurementArchive,
                 handlersRun, savedDatasets, effectDeps, pendingReads, galleryVars,
                 calibVars, NotApp>>

\* App.tsx 180-183 and 198: computeCalibration up to setTimeout; the callback
\* keeps the calibration and imgDims of the render the handler belongs to
\* (useCallback, line 198).  Sidebar.tsx 571 and 596: the button is shown in
\* CALIBRATE mode and disabled while the status is 'computing'
computeCalibration ==
  /\ mode = "CALIBRATE"
  /\ calibrationStatus # "computing"
  /\ computations < MaxComputations
  /\ UserAction("computeCalibration")
  /\ IF IsZero(imgDims.w) \/ IsNaN(imgDims.w) \/ Len(calibrationLines) < 2
     THEN UNCHANGED <<calibrationStatus, pendingCalibrations, computations>>
     ELSE /\ calibrationStatus' = "computing"
          /\ pendingCalibrations' =
               Append(pendingCalibrations,
                      [lines |-> calibrationLines, lensK1 |-> lensK1, imgDims |-> imgDims,
                       n |-> computations + 1])
          /\ computations' = computations + 1
  /\ UNCHANGED <<calibrationLines, validationLines, lensK1, homographyMatrix, matrixFrom,
                 clearedAt, mode, savedDatasets, effectDeps, pendingReads, galleryVars,
                 measureVars, NotApp>>

\* part_000 79-270 as the callback sees it: null with fewer than two defined
\* lines (lines 85-86), a result with a matrix otherwise.  The matrix is any
\* of AppMatrices here; the function itself is followed step by step in
\* SpecOpt.  Of the result the matrix is kept: reprojectionErrors, mape and
\* rmse are not modelled
optimizeHomographyFromLines(ls, k, c, dg) ==
  IF TooFew(FilterDefined(ls)) THEN {NoResult}
  ELSE {[matrix |-> M] : M \in AppMatrices}

\* App.tsx 184-197: the callback of setTimeout, run on the calibration and
\* imgDims it keeps; timers of equal delay run in the order they were set
CalibrationTimeout ==
  /\ pendingCalibrations # <<>>
  /\ \E res \in optimizeHomographyFromLines(Head(pendingCalibrations).lines,
                                            Head(pendingCalibrations).lensK1,
                                            Center(Head(pendingCalibrations).imgDims),
                                            Diagonal(Head(pendingCalibrations).imgDims)) :
       IF res # NoResult
       THEN /\ homographyMatrix' = res.matrix
            /\ matrixFrom' = Head(pendingCalibrations).n
            /\ calibrationStatus' = "success"
       ELSE /\ calibrationStatus' = "error"
            /\ UNCHANGED <<homographyMatrix, matrixFrom>>
  /\ pendingCalibrations' = Tail(pendingCalibrations)
  /\ lastHandler' = "computeCalibration: timeout"
  /\ UNCHANGED <<calibrationLines, validationLines, lensK1, computations, clearedAt, mode,
                 savedDatasets, effectDeps, pendingReads, userActions, galleryVars,
                 measureVars, NotApp>>

\* App.tsx 404-416: clearScoped
clearScoped ==
  /\ UserAction("clearScoped")
  /\ IF mode = "CALIBRATE"
     THEN /\ calibrationLines' = <<>>
          /\ lensK1' = Zero
          /\ homographyMatrix' = Null
          /\ matrixFrom' = 0
          /\ calibrationStatus' = "idle"
          /\ clearedAt' = computations
          /\ UNCHANGED <<validationLines, measurements, calcResult, measurementArchive>>
     ELSE IF mode = "VALIDATE"
     THEN /\ validationLines' = <<>>
          /\ UNCHANGED <<calibrationLines, lensK1, homographyMatrix, matrixFrom,
                         calibrationStatus, clearedAt, measurements, calcResult,
                         measurementArchive>>
     ELSE /\ measurements' = [pointA |-> Null, pointB |-> Null]
          /\ calcResult' = Null
          /\ measurementArchive' = <<>>
          /\ UNCHANGED <<calibrationLines, lensK1, homographyMatrix, matrixFrom,
                         calibrationStatus, clearedAt, validationLines>>
  /\ UNCHANGED <<pendingCalibrations, computations, handlersRun, mode, savedDatasets,
                 effectDeps, pendingReads, galleryVars, NotApp>>

\* App.tsx 458, Sidebar.tsx 621-627: "Calculate" is shown in MEASURE mode and
\* enabled when canCalculate
canCalculate ==
  homographyMatrix # Null /\ measurements.pointA # Null /\ measurements.pointB # Null

onCalculate == mode = "MEASURE" /\ canCalculate /\ calculateMeasurement

\* a session with two images uploaded and the first one loaded, before a
\* calibration: no line yet, two points placed
InitCal ==
  /\ homographyMatrix = Null
  /\ imageGallery = <<ImageFile(<<"img", 1>>, 4, 3), ImageFile(<<"img", 2>>, 8, 6)>>
  /\ activeImageIdx = 0
  /\ imgDims = [w |-> Q(4, 1), h |-> Q(3, 1)]
  /\ uploads = 1
  /\ pendingUploads = <<>>
  /\ lensK1 = Zero
  /\ validationLines = <<>>
  /\ measurements = [pointA |-> P00, pointB |-> P43]
  /\ calcResult = Null
  /\ measurementArchive = <<>>
  /\ handlersRun = {}
  /\ lastHandler = "none"
  /\ mode = "CALIBRATE"
  /\ calibrationLines = <<>>
  /\ calibrationStatus = "idle"
  /\ pendingCalibrations = <<>>
  /\ savedDatasets = [name \in {} |-> <<>>]
  /\ effectDeps = Null
  /\ computations = 0
  /\ matrixFrom = 0
  /\ clearedAt = 0
  /\ pendingReads = <<>>
  /\ userActions = 0
  /\ DescentIdle
  /\ PrimIdle
  /\ OptIdle
  /\ DltIdle
  /\ InvIdle
  /\ McIdle
  /\ LcgIdle
  /\ GprIdle

NextCal ==
  \/ handleImportCSV(LinesCsv)
  \/ ReaderOnload
  \/ CoordinateTyped
  \/ TrueLengthTyped
  \/ AngleTyped
  \/ onDeleteLine
  \/ undoLastPoint
  \/ \E name \in DatasetNames : handleSavePoints(name)
  \/ \E name \in DatasetNames : handleLoadPoints(name)
  \/ \E m \in Modes : setMode(m)
  \/ SelectActiveImage
  \/ ImageLoads
  \/ computeCalibration
  \/ CalibrationTimeout
  \/ clearScoped
  \/ onCalculate

SpecCal == InitCal /\ [][NextCal]_vars

\* ======================================================================
\* App.tsx 200-219: the effect that validates the lines
\* ======================================================================
\* line 219: the dependencies of the effect in the current render
EffectDependencies == <<homographyMatrix, Len(validationLines), lensK1, imgDims>>

\* the effect runs after a render whose dependencies differ from those of the
\* render before
EffectPending == EffectDependencies # effectDeps

\* errorPct and mcsUncertainty of a line the effect has not written to
Undefined == <<"undefined">>
Field(l, name) == IF name \in DOMAIN l THEN l[name] ELSE Undefined

\* a !== b on numbers and undefined
StrictlyDiffer(a, b) == a # b \/ (a # Undefined /\ IsNaN(a))

\* line 210: errPct
ErrPct(l, hm, k, c, dg) ==
  Mul(Div(Abs(Sub(l.trueLength, ValEntry(l, hm, k, c, dg).measuredDist)),
          l.trueLength),
      Q(100, 1))

\* lines 211-212: mcs.stdDev * 2, the 100 iterations scaled as for every caller
McsUncertainty(l, hm, k, c, dg) ==
  Mul(runMonteCarlo(l.start, l.end, hm, k, c, dg, CallerIterations,
                    CallerSigma).stdDev, Q(2, 1))

\* lines 205-213: the callback of validationLines.map
ValidatedLine(l, hm, k, c, dg) ==
  IF ~l.defined \/ Lt(l.trueLength, Zero) \/ IsZero(l.trueLength) THEN l
  ELSE ("errorPct" :> ErrPct(l, hm, k, c, dg))
       @@ ("mcsUncertainty" :> McsUncertainty(l, hm, k, c, dg))
       @@ l

\* lines 205-213: updated
ValidatedLines(ls, hm, k, c, dg) ==
  [n \in 1..Len(ls) |-> ValidatedLine(ls[n], hm, k, c, dg)] \o <<>>

\* lines 215-217: hasChanged
HasChanged(updated, ls) ==
  \E idx \in 1..Len(updated) :
    \/ StrictlyDiffer(Field(updated[idx], "errorPct"), Field(ls[idx], "errorPct"))
    \/ StrictlyDiffer(Field(updated[idx], "mcsUncertainty"), Field(ls[idx], "mcsUncertainty"))

\* line 219: React runs the effect after a render that changed a dependency
EffectRuns == EffectPending /\ effectDeps' = EffectDependencies

\* lines 200-219: the effect
ValidationEffect ==
  /\ EffectRuns
  /\ lastHandler' = "useEffect"
  /\ IF homographyMatrix = Null \/ validationLines = <<>>
     THEN UNCHANGED validationLines
     ELSE \E updated \in {ValidatedLines(validationLines, homographyMatrix, lensK1,
                                         Center(imgDims), Diagonal(imgDims))} :
            validationLines' = IF HasChanged(updated, validationLines) THEN updated
                               ELSE validationLines
  /\ UNCHANGED <<calibrationLines, mode, savedDatasets, pendingReads, userActions,
                 galleryVars, calibVars, measureVars, NotApp>>

\* App.tsx 91: activeLines
ActiveLines(ls) == SelectSeq(ls, LAMBDA vl : vl.defined /\ Gt(vl.trueLength, Zero))

\* App.tsx 96-103: sumAbsPctErr from line n on
RECURSIVE SumAbsPctErr(_, _, _, _, _, _, _)
SumAbsPctErr(ls, n, hm, k, c, dg, sum) ==
  IF n > Len(ls) THEN sum
  ELSE SumAbsPctErr(ls, n + 1, hm, k, c, dg,
                    Add(sum, Abs(Div(Sub(ValEntry(ls[n], hm, k, c, dg).measuredDist,
                                         ls[n].trueLength),
                                     ls[n].trueLength))))

\* App.tsx 86-111: validationStats.globalMape
GlobalMape(ls, hm, dims, k) ==
  IF hm = Null \/ IsZero(dims.w) \/ IsNaN(dims.w) THEN Zero
  ELSE IF ActiveLines(ls) = <<>> THEN Zero
  ELSE Mul(Div(SumAbsPctErr(ActiveLines(ls), 1, hm, k, Center(dims), Diagonal(dims), Zero),
               Q(Len(ActiveLines(ls)), 1)),
           Q(100, 1))

\* Sidebar.tsx 610-611: the coordinate inputs of a validation line; here the
\* x of the first point
ValidationCoordinateTyped ==
  /\ mode = "VALIDATE"
  /\ \E id \in EditedIds(validationLines), value \in TypedValues :
       handleManualCoordUpdate("VALIDATE", id, "start", "x", ParseNumber(value))

\* Sidebar.tsx 612: onChange of "True Len" of a validation line
ValidationTrueLengthTyped ==
  /\ mode = "VALIDATE"
  /\ \E id \in EditedIds(validationLines), value \in TypedValues :
       validationLines' = EditLine(validationLines, id, "trueLength",
                                   OrElse(ParseNumber(value), Zero))
  /\ UserAction("validation trueLength.onChange")
  /\ UNCHANGED <<calibrationLines, mode, savedDatasets, effectDeps, pendingReads,
                 galleryVars, calibVars, measureVars, NotApp>>

\* App.tsx 462: onDeleteValidationLine(id)
onDeleteValidationLine ==
  /\ mode = "VALIDATE"
  /\ \E id \in EditedIds(validationLines) :
       validationLines' = WithoutLine(validationLines, id)
  /\ UserAction("onDeleteValidationLine")
  /\ UNCHANGED <<calibrationLines, mode, savedDatasets, effectDeps, pendingReads,
                 galleryVars, calibVars, measureVars, NotApp>>

\* a session in VALIDATE mode after a calibration, no validation line yet;
\* the effect ran when the matrix was set
InitVal ==
  /\ homographyMatrix \in AppMatrices
  /\ imageGallery = <<ImageFile(<<"img", 1>>, 4, 3)>>
  /\ activeImageIdx = 0
  /\ imgDims = [w |-> Q(4, 1), h |-> Q(3, 1)]
  /\ uploads = 1
  /\ pendingUploads = <<>>
  /\ lensK1 = Zero
  /\ validationLines = <<>>
  /\ measurements = [pointA |-> Null, pointB |-> Null]
  /\ calcResult = Null
  /\ measurementArchive = <<>>
  /\ handlersRun = {}
  /\ lastHandler = "none"
  /\ mode = "VALIDATE"
  /\ calibrationLines = ParsedLines(LinesCsv)
  /\ calibrationStatus = "success"
  /\ pendingCalibrations = <<>>
  /\ savedDatasets = [name \in {} |-> <<>>]
  /\ effectDeps = EffectDependencies
  /\ computations = 1
  /\ matrixFrom = 1
  /\ clearedAt = 0
  /\ pendingReads = <<>>
  /\ userActions = 0
  /\ DescentIdle
  /\ PrimIdle /\ OptIdle /\ DltIdle /\ InvIdle /\ McIdle /\ LcgIdle /\ GprIdle

\* a handler runs after the effect of the render before it
NextVal ==
  \/ ValidationEffect
  \/ ~EffectPending /\ handleImportCSV(LinesCsv)
  \/ ~EffectPending /\ ReaderOnload
  \/ ~EffectPending /\ ValidationCoordinateTyped
  \/ ~EffectPending /\ ValidationTrueLengthTyped
  \/ ~EffectPending /\ onDeleteValidationLine
  \/ ~EffectPending /\ undoLastPoint
  \/ ~EffectPending /\ clearScoped

SpecVal == InitVal /\ [][NextVal]_vars

\* React runs the effects of every render it commits: a pending effect is
\* not left waiting for ever
FairSpecVal == SpecVal /\ WF_effectDeps(EffectRuns)

\* ======================================================================
\* optimizeHomographyFromLines: the descent loop (part_000 110-223)
\* ======================================================================
\* line 110, const iterations = 30000, scaled down
Iterations == 4
\* line 222, iter % 3000, scaled down
DecayPeriod == 2

\* line 111: let stepSize = 1e-6
InitialStepSize == Q(1, 1000000)
\* line 222: stepSize *= 0.65
DecayFactor == Q(65, 100)
\* line 219: the longest update, 0.1
MaxUpdate == Q(1, 10)

\* gradients are written in units of 1e5, so that their squares fit an integer
GradientUnit == Q(100000, 1)

\* The residuals and penalties of lines 123-213 are not computed: the gradient
\* an iteration ends up with is any of these (in units of 1e5).  Norms: 0, 1/2
\* (below 0.1/stepSize), 5 (above it), NaN
GradientCatalog ==
  { <<Zero, Zero, Zero, Zero, Zero, Zero, Zero, Zero>>,
    <<Q(3, 10), Q(4, 10), Zero, Zero, Zero, Zero, Zero, Zero>>,
    <<Zero, Zero, Zero, Zero, Zero, Zero, Q(-3, 1), Q(4, 1)>>,
    <<NaN, Zero, Zero, Zero, Zero, Zero, Zero, Zero>> }

\* lines 214-216: gNorm = Math.sqrt(sum of gradients[i]^2)
RECURSIVE SumOfSquares(_, _, _)
SumOfSquares(g, i, acc) ==
  IF i > Len(g) THEN acc ELSE SumOfSquares(g, i + 1, Add(acc, Mul(g[i], g[i])))

GNorm(g) == Mul(GradientUnit, Sqrt(SumOfSquares(g, 1, Zero)))

\* line 217: gNorm > 1e-12 (gNorm is not negative)
StepTaken(gNorm) == ~IsNaN(gNorm) /\ ~AbsLt1e12(gNorm)

\* line 218: Math.min(stepSize, 0.1 / gNorm)
Step(s, gNorm) == Min(s, Div(MaxUpdate, gNorm))

\* lines 217-220: h after the update
Updated(hh, s, g) ==
  IF StepTaken(GNorm(g))
  THEN [i \in 1..9 |->
          IF i <= 8 THEN Sub(hh[i], Mul(Step(s, GNorm(g)), Mul(GradientUnit, g[i])))
          ELSE hh[i]] \o <<>>
  ELSE hh

\* line 222: if (iter % 3000 === 0) stepSize *= 0.65
Decayed(s, it) == IF it % DecayPeriod = 0 THEN Mul(s, DecayFactor) ELSE s

\* Math.abs on the whole degrees of an angle
AbsDeg(a) == IF a < 0 THEN -a ELSE a

\* lines 192-193: the test on a pair of angles
Perpendicular(a, b) ==
  AbsDeg(AbsDeg(a - b) - 90) < 5 \/ AbsDeg(AbsDeg(a - b) - 270) < 5

\* lines 190-193: the pairs i < j (counted from 0) the penalty is applied to
PenalizedPairs(data) ==
  {p \in (0..(Len(data) - 1)) \X (0..(Len(data) - 1)) :
     p[1] < p[2] /\ Perpendicular(data[p[1] + 1].angle, data[p[2] + 1].angle)}

\* the angles of the active lines a caller may pass, line by line
AngleLists ==
  { <<0, 90>>, <<0, 450>>, <<10, 96>>, <<270, 0, 94>> }

LinesWithAngles(angles) ==
  [n \in 1..Len(angles) |-> Line(P00, P40, Q(4, 1), angles[n], TRUE)] \o <<>>

\* the loop is entered (line 119) with the seed of line 108 and stepSize 1e-6
InitDescent ==
  /\ pc = "loop"
  /\ \E angles \in AngleLists :
       /\ lines = LinesWithAngles(angles)
       /\ activeLines = LinesWithAngles(angles)
  /\ k1 = Zero /\ center = Pt(Q(2, 1), Q(3, 2)) /\ diag = Q(5, 1)
  /\ Tnorm = Unset /\ hRaw = Unset /\ finalH = Unset /\ flipped = FALSE /\ result = Unset
  /\ h = <<One, Zero, Zero, Zero, One, Zero, Zero, Q(1, 10000), One>>
  /\ iter = 0
  /\ stepSize = InitialStepSize
  /\ gradients = Unset
  /\ orthoPairs = {}
  /\ PrimIdle
  /\ DltIdle
  /\ InvIdle /\ McIdle /\ LcgIdle /\ GprIdle /\ AppIdle /\ UiIdle

notDescent == <<lines, k1, center, diag, activeLines, Tnorm, hRaw, finalH, flipped, result,
                primVars, dltVars, invVars, mcVars, lcgVars, gprVars, appVars, uiVars>>

\* lines 119-222: one iteration
DescentIteration ==
  /\ pc = "loop"
  /\ iter < Iterations
  /\ \E g \in GradientCatalog :
       /\ gradients' = g
       /\ h' = Updated(h, stepSize, g)
  /\ orthoPairs' = PenalizedPairs(activeLines)
  /\ stepSize' = Decayed(stepSize, iter)
  /\ iter' = iter + 1
  /\ UNCHANGED <<pc, notDescent>>

\* line 119 with the loop also left once the gradient vanishes (mutant)
DescentExit_whenConverged ==
  /\ pc = "loop"
  /\ \/ ~(iter < Iterations)
     \/ iter > 0 /\ ~StepTaken(GNorm(gradients))
  /\ pc' = "scale"
  /\ UNCHANGED <<h, descentVars, notDescent>>

\* line 119: iter < iterations is false, the loop is left
DescentExit ==
  /\ pc = "loop"
  /\ ~(iter < Iterations)
  /\ pc' = "scale"
  /\ UNCHANGED <<h, descentVars, notDescent>>

NextDescent == DescentIteration \/ DescentExit

SpecDescent == InitDescent /\ [][NextDescent]_vars

\* the loop is not interrupted: an iteration that can run does.  One call, with
\* three active lines
InitDescentOnce == InitDescent /\ Len(activeLines) = 3

FairSpecDescent == InitDescentOnce /\ [][NextDescent]_vars /\ WF_vars(NextDescent)

\* ======================================================================
\* Claims
\* ======================================================================

\* C7: every applyHomography the repository exports returns the origin when
\* the projective denominator w = h6*x + h7*y + h8 has |w| < 1e-12, and the
\* quotient ((h0*x+h1*y+h2)/w, (h3*x+h4*y+h5)/w) otherwise.
C7_EveryApplyHomographyGuardsW ==
  pCall \in {"applyHomography", "applyHomography_math"} =>
    LET w == Add(Add(Mul(pH[7], pPt.x), Mul(pH[8], pPt.y)), pH[9])
    IN pRet = IF AbsLt1e12(w) THEN Origin
              ELSE Pt(Div(Add(Add(Mul(pH[1], pPt.x), Mul(pH[2], pPt.y)), pH[3]), w),
                      Div(Add(Add(Mul(pH[4], pPt.x), Mul(pH[5], pPt.y)), pH[6]), w))

\* C8: with k1 = 0, undistortPoint (either copy) returns its point argument
\* unchanged, for every point, center and diagonal, diagonal = 0 included.
C8_UndistortIdentity ==
  (pCall \in {"undistortPoint", "undistortPoint_math"} /\ pK1 = Zero) => pRet = pPt

\* C8 witness: undistortPoint was called with k1 = 0, diagonal = 0 and an
\* off-center point, and returned that point.
C8_Witness ==
  /\ pCall = "undistortPoint" /\ pK1 = Zero /\ pDiag = Zero
  /\ pPt # pCenter /\ pRet = pPt


\* ---------------------------------------------------------------------
\* optimizeHomographyFromLines
\* ---------------------------------------------------------------------

\* the matrix the function holds after the scale lock: hRaw until line 244
\* has run, finalH from then on
Returned == pc = "done" /\ result # NoResult
AfterScaleLock == pc \in {"align", "orient", "metrics"} \/ Returned
Current == IF pc = "align" THEN hRaw ELSE finalH

\* the number of defined lines among those supplied
NumDefined == Cardinality({i \in 1..Len(lines) : lines[i].defined})

\* C1: the function returns null exactly when fewer than 2 of the supplied
\* lines are defined; otherwise it returns a result with a 9-entry matrix, and
\* it never raises an exception.
C1_NullIffFewerThanTwoDefined ==
  /\ pc # "threw"
  /\ pc = "done" =>
       /\ (result = NoResult) <=> (NumDefined < 2)
       /\ result # NoResult => Len(result.matrix) = 9

\* C1 witness: a result with a matrix was returned for an input whose anchor
\* line has coincident endpoints (a degenerate projection).
C1_Witness ==
  /\ Returned /\ Len(result.matrix) = 9
  /\ \E i \in 1..Len(lines) : lines[i].defined /\ lines[i].start = lines[i].end

\* the anchor as the claim names it: the defined line with the largest
\* trueLength, the first such line on a tie
ClaimAnchor ==
  CHOOSE i \in 1..Len(activeLines) :
    /\ \A j \in 1..Len(activeLines) :
         ~Lt(activeLines[i].trueLength, activeLines[j].trueLength)
    /\ \A j \in 1..(i - 1) :
         Lt(activeLines[j].trueLength, activeLines[i].trueLength)

AnchorLength == ProjectedLength(activeLines[ClaimAnchor], Current, k1, center, diag)

Denominator(pt, M) == Add(Add(Mul(M[7], pt.x), Mul(M[8], pt.y)), M[9])

\* the anchor before the scale lock: its length under the un-normalized matrix
\* is finite and not 0, its trueLength is not negative, and neither endpoint
\* has a near-zero denominator
AnchorRegular ==
  LET hRaw0 == multiplyMatrices(Append(h, One), Tnorm)
      a == activeLines[ClaimAnchor]
      calcLen == ProjectedLength(a, hRaw0, k1, center, diag)
  IN /\ IsFinite(calcLen) /\ ~IsZero(calcLen)
     /\ ~Lt(a.trueLength, Zero)
     /\ ~AbsLt1e12(Denominator(undistortPoint(a.start, k1, center, diag), hRaw0))
     /\ ~AbsLt1e12(Denominator(undistortPoint(a.end, k1, center, diag), hRaw0))

Line0Start == applyHomography(undistortPoint(activeLines[1].start, k1, center, diag), Current)
Line0End == applyHomography(undistortPoint(activeLines[1].end, k1, center, diag), Current)

\* C3: in the matrix after the alignment step (and after the Y flip), the
\* start of line 0 projects to the origin and the projected direction of
\* line 0 is the unit vector (sin(angle), cos(angle)) of its ground-truth angle.
C3_Line0AlignedToItsAngle ==
  (pc \in {"orient", "metrics"} \/ Returned) =>
    LET len == euclideanDistance(Line0Start, Line0End)
    IN /\ Line0Start = Origin
       /\ (IsFinite(len) /\ ~IsZero(len)) =>
            /\ Sub(Line0End.x, Line0Start.x) = Mul(len, SinDeg(activeLines[1].angle))
            /\ Sub(Line0End.y, Line0Start.y) = Mul(len, CosDeg(activeLines[1].angle))

\* the Y value of the probe points under a matrix
ProbeAboveY(M) == applyHomography(ProbeAbove(center, diag), M).y
ProbeBelowY(M) == applyHomography(ProbeBelow(center, diag), M).y

\* C4: in the returned matrix the probe above the image centre projects to a
\* Y value not smaller than the probe below it, and the Y axis was flipped
\* exactly when that did not hold for the matrix before the check.
C4_OrientationCanonical ==
  (pc = "metrics" \/ Returned) =>
    LET before == Align(hRaw, activeLines, k1, center, diag)
    IN /\ ~Lt(ProbeAboveY(finalH), ProbeBelowY(finalH))
       /\ flipped <=> Lt(ProbeAboveY(before), ProbeBelowY(before))
       /\ finalH # before <=> flipped

\* C4 witness: the flip was applied and the returned matrix orders the probes
\* strictly.
C4_Witness ==
  /\ Returned /\ flipped
  /\ Lt(ProbeBelowY(result.matrix), ProbeAboveY(result.matrix))

\* C5: every line that takes part in the fit (residuals, anchor, orientation
\* reference, MAPE/RMSE metrics: the lines of activeLines) is defined and has
\* trueLength > 0.
C5_OnlyPositiveLengthLinesParticipate ==
  pc \in {"loop", "scale", "align", "orient", "metrics", "done"} =>
    \A i \in 1..Len(activeLines) :
      activeLines[i].defined /\ Lt(Zero, activeLines[i].trueLength)

\* C6: the returned matrix has h22 (index 8, here 9) equal to 1.
C6_H22IsOne ==
  Returned => result.matrix[9] = One

\* ---------------------------------------------------------------------
\* computeHomography
\* ---------------------------------------------------------------------

\* some pivot chosen during the elimination had magnitude below 1e-18
SomePivotBelow1e18 == \E i \in 1..Len(pivots) : AbsLt1e18(pivots[i])

\* C9: computeHomography returns null when fewer than 4 correspondences are
\* given and when a pivot chosen during the elimination has magnitude below
\* 1e-18; in every other case with as many destinations as sources it returns
\* a 9-entry matrix.
C9_NullWhenTooFewOrSingular ==
  dpc = "done" =>
    /\ Len(src) < 4 => homography = NoSolution
    /\ SomePivotBelow1e18 => homography = NoSolution
    /\ (Len(src) >= 4 /\ Len(src) = Len(dst) /\ ~SomePivotBelow1e18) =>
         (homography # NoSolution /\ Len(homography) = 9)

\* C9 witness: four correspondences were given, the first pivots were large
\* enough, a later pivot was below 1e-18, and null was returned.
C9_Witness ==
  /\ dpc = "done" /\ Len(src) = 4 /\ Len(dst) = 4
  /\ Len(pivots) > 1 /\ ~AbsLt1e18(pivots[1])
  /\ AbsLt1e18(pivots[Len(pivots)])
  /\ homography = NoSolution

\* C10: whenever computeHomography returns a matrix, its bottom-right entry
\* (index 8, here 9) is 1.
C10_BottomRightIsOne ==
  (dpc = "done" /\ homography # NoSolution) => homography[9] = One

\* ---------------------------------------------------------------------
\* invertMatrix3x3
\* ---------------------------------------------------------------------

\* the round trip has run and neither denominator was near zero
RoundTripDone ==
  /\ ipc = "done" /\ iInv # NoInverse
  /\ ~AbsLt1e12(Denominator(iPt, iH))
  /\ ~AbsLt1e12(Denominator(iFwd, iInv))

\* no entry of the matrix and no coordinate of the point is irrational, so
\* that no intermediate sum is rounded
ExactInputs ==
  /\ \A n \in 1..9 : iH[n][3] = 1
  /\ iPt.x[3] = 1 /\ iPt.y[3] = 1

FromSeedValue(seedValue) == LocalDistances(mArgs, LoopStart(<<0, seedValue>>)).distances

\* C12: two calls of runMonteCarlo with identical arguments have identical
\* outcomes, whatever was called before or in between, and the distances of
\* each seed are those of a generator started at that seed's value: no
\* generator state is carried from one seed or one call to the next.
C12_SameArgumentsSameResult ==
  /\ \A m, n \in 1..Len(mcLog) :
       mcLog[m].args = mcLog[n].args => mcLog[m].ret = mcLog[n].ret
  /\ \A n \in 1..Len(ensembleDistances) : ensembleDistances[n] = FromSeedValue(n - 1)

\* C12 witness: three calls returned, the first and the third with the same
\* arguments and the same result, the second with other arguments and
\* another result.
C12_Witness ==
  /\ Len(mcLog) = 3
  /\ mcLog[1].args = mcLog[3].args /\ mcLog[2].args # mcLog[1].args
  /\ mcLog[1].ret # Threw /\ mcLog[2].ret # Threw
  /\ mcLog[1].ret = mcLog[3].ret /\ mcLog[2].ret # mcLog[1].ret

\* ---------------------------------------------------------------- C14
McReturned == mpc = "idle" /\ Len(mcLog) > 0 /\ mcLog[Len(mcLog)].ret # Threw

\* the sum of xs taken from the left, each partial sum rounded as a double is
SumLeft(xs) == Reduce(xs, 1, Zero)

SampleMean(xs) == Div(SumLeft(xs), Q(Len(xs), 1))

SampleStdDev(xs) ==
  LET sq == [n \in 1..Len(xs) |-> Mul(Sub(xs[n], SampleMean(xs)), Sub(xs[n], SampleMean(xs)))]
  IN Sqrt(Div(SumLeft(sq), Q(IF Len(xs) = 1 THEN 1 ELSE Len(xs) - 1, 1)))

\* C14: the result returned is the arithmetic mean over exactly thirty
\* seeds, 0..29, of the seeds' sample means and of their sample standard
\* deviations; a seed's standard deviation divides by iterations - 1, and by
\* 1 when iterations = 1, where it is 0.
C14_MeanOfThirtySeeds ==
  McReturned =>
    /\ Len(ensembleResults) = 30
    /\ \A n \in 1..30 :
         /\ ensembleDistances[n] = FromSeedValue(n - 1)
         /\ Len(ensembleDistances[n]) = mArgs.iterations
         /\ ensembleResults[n].mean = SampleMean(ensembleDistances[n])
         /\ ensembleResults[n].stdDev = SampleStdDev(ensembleDistances[n])
         /\ (mArgs.iterations = 1 => ensembleResults[n].stdDev = Zero)
    /\ mcLog[Len(mcLog)].ret.mean =
         Div(SumLeft([n \in 1..30 |-> ensembleResults[n].mean]), Q(30, 1))
    /\ mcLog[Len(mcLog)].ret.stdDev =
         Div(SumLeft([n \in 1..30 |-> ensembleResults[n].stdDev]), Q(30, 1))

\* C14 witness: a call with two iterations returned a result whose standard
\* deviation is not 0, after a call with one iteration.
C14_Witness ==
  /\ McReturned
  /\ Len(mcLog) = 2
  /\ mcLog[1].args.iterations = 1 /\ mcLog[1].ret.stdDev = Zero
  /\ mArgs.iterations = 2 /\ mcLog[2].ret.stdDev # Zero
  /\ \E n \in 1..30 : ensembleResults[n].stdDev # Zero

\* ---------------------------------------------------------------- C13
CheckPrimes == {32749, 32719, 32717, 32713}

\* the integer with the given limbs, lowest first, modulo p
RECURSIVE LimbsMod(_, _, _)
LimbsMod(ls, n, p) ==
  IF n > Len(ls) THEN 0 ELSE (ls[n] + (Limb % p) * LimbsMod(ls, n + 1, p)) % p

\* s * 1664525 + 1013904223 modulo p, for the state s = <<hi, lo>>
LcgMod(st, p) ==
  (LimbsMod(<<st[2], st[1]>>, 1, p) * (LcgMultiplier % p) + (LcgIncrement % p)) % p

IsLimb(n) == n \in 0..(Limb - 1)

\* C13: every generator state is an integer in [0, 2^32); each draw
\* replaces the state s by (s * 1664525 + 1013904223) mod 2^32, the
\* intermediate being below 2^53 (it equals s * 1664525 + 1013904223
\* modulo four primes whose product exceeds 2^53); the generator starts at
\* its seed in 0..29; the uniform value is in [0, 1) and the noise in
\* [-sigma, sigma].
C13_ExactLcg ==
  lpc = "drawing" =>
    /\ lSeed \in 0..29
    /\ IsLimb(lState[1]) /\ IsLimb(lState[2])
    /\ lDraws = 0 => lState = <<0, lSeed>>
    /\ lDraws > 0 =>
         /\ \A n \in 1..3 : IsLimb(lProduct[n])
         /\ lProduct[4] \in 0..31
         /\ \A p \in CheckPrimes : LimbsMod(lProduct, 1, p) = LcgMod(lPrev, p)
         /\ lState = <<lProduct[2], lProduct[1]>>
         /\ ~Lt(Uniform(lState), Zero) /\ Lt(Uniform(lState), One)
         /\ ~Lt(lNoise, Neg(lSigma)) /\ ~Lt(lSigma, lNoise)

\* C13 witness: the generator started at seed 29 has drawn twice, its state
\* is 59570 * 65536 + 43095, above 2^31, and the noise is positive.
C13_Witness ==
  /\ lpc = "drawing" /\ lSeed = 29 /\ lDraws = 2
  /\ lState = <<59570, 43095>>
  /\ lSigma = Q(2, 1) /\ Lt(Zero, lNoise)

\* ---------------------------------------------------------------- C15
Predictions == {gLog[n] : n \in 1..Len(gLog)}

\* C15: with an empty history predictBiasRatio returns ratio 1, confidence
\* 0 and the baseline localSigma 0.15, whatever the midpoint.
C15_EmptyHistoryFallback ==
  \A c \in Predictions :
    c.history = <<>> =>
      c.ret.ratio = One /\ c.ret.confidence = Zero /\ c.ret.localSigma = Q(15, 100)

\* C15 witness: two calls with an empty history and different midpoints
\* have returned.
C15_Witness ==
  /\ Len(gLog) = 2
  /\ gLog[1].history = <<>> /\ gLog[2].history = <<>>
  /\ gLog[1].midpoint # gLog[2].midpoint
  /\ gLog[1].ret = gLog[2].ret

\* ---------------------------------------------------------------- C16
\* C16: for a non-empty history whose accumulated weight is below 0.1 the
\* result has ratio 1 and confidence 0.
C16_LowWeightFallback ==
  \A c \in Predictions :
    (c.history # <<>> /\ Lt(c.totalWeight, Q(1, 10))) =>
      c.ret.ratio = One /\ c.ret.confidence = Zero

\* ---------------------------------------------------------------- C17
\* the kernel weights of a call's entries, and their sum
Weights(c) == [n \in 1..Len(c.history) |-> KernelWeight(c.midpoint, c.history[n])]
WeightSum(c) == SumSeq(Weights(c), 1)

\* C17: the confidence returned is the accumulated kernel weight clamped
\* to [0, 1]: it is the total weight when that is at most 1 and 1 otherwise.
C17_ConfidenceIsClampedWeight ==
  \A c \in Predictions :
    /\ c.totalWeight = WeightSum(c)
    /\ ~Lt(c.ret.confidence, Zero) /\ ~Lt(One, c.ret.confidence)
    /\ c.ret.confidence = IF Lt(One, WeightSum(c)) THEN One ELSE WeightSum(c)

\* C17 witness: one call returned with a total weight above 1 and
\* confidence 1, another with a total weight strictly between 0 and 1.
C17_Witness ==
  /\ \E c \in Predictions : Lt(One, c.totalWeight) /\ c.ret.confidence = One
  /\ \E c \in Predictions :
       Lt(Zero, c.totalWeight) /\ Lt(c.totalWeight, One) /\ c.ret.confidence = c.totalWeight

\* ---------------------------------------------------------------- C18
\* the ratios of a call's entries and their weighted average
Ratios(c) ==
  [n \in 1..Len(c.history) |->
     Div(c.history[n].trueDist,
         IF IsZero(c.history[n].measuredDist) THEN One ELSE c.history[n].measuredDist)]
WeightedAverage(c) ==
  Div(SumSeq([n \in 1..Len(c.history) |-> Mul(Ratios(c)[n], Weights(c)[n])], 1),
      WeightSum(c))

Blend(r, conf) == Add(Mul(r, conf), Sub(One, conf))

\* the returned ratio lies between the smallest and the largest of 1 and
\* the entries' ratios
RatioWithinEntries(c) ==
  /\ \E r \in {One} \cup {Ratios(c)[n] : n \in 1..Len(c.history)} : ~Lt(c.ret.ratio, r)
  /\ \E r \in {One} \cup {Ratios(c)[n] : n \in 1..Len(c.history)} : ~Lt(r, c.ret.ratio)

Archive == {measurementArchive[n] : n \in 1..Len(measurementArchive)}

\* a <= b of two doubles: false when either is NaN
Le(a, b) == Lt(a, b) \/ (a = b /\ ~IsNaN(a))

\* a <= b of two doubles that are not negative, compared through their squares
LeRoot(a, b) ==
  /\ Le(Zero, a) /\ Le(Zero, b)
  /\ IF ~IsFinite(a) \/ ~IsFinite(b) THEN Le(a, b)
     ELSE LET x == Mul(a, a)
              y == Mul(b, b)
              g == GCD(x[2], y[2])
          IN x[1] * (y[2] \div g) <= y[1] * (x[2] \div g)

SameMeasurement(e1, e2) ==
  /\ e1.rawDist = e2.rawDist /\ e1.correctedDist = e2.correctedDist
  /\ e1.uncertainty = e2.uncertainty /\ e1.intervals = e2.intervals

\* C20: every entry of the archive, whichever of calculateMeasurement,
\* handleUpdateArchiveEntry and handleImportMeasurementsCSV computed it, has
\* correctedDist = rawDist * ratio, uncertainty = sqrt(mcStdDev^2 +
\* sigmaGPR^2) and half-widths 1.645, 1.960 and 2.576 times the
\* uncertainty, so that 0 <= ci90 <= ci95 <= ci99 and the uncertainty is at
\* least mcStdDev and at least sigmaGPR; entries with the same points have
\* the same values.
C20_CombinerEverywhere ==
  /\ \A e \in Archive :
       /\ e.correctedDist = Mul(e.rawDist, e.ratio)
       /\ e.uncertainty = Sqrt(Add(Mul(e.mcStdDev, e.mcStdDev), Mul(e.sigmaGPR, e.sigmaGPR)))
       /\ e.intervals.ci90 = Mul(Q(1645, 1000), e.uncertainty)
       /\ e.intervals.ci95 = Mul(Q(1960, 1000), e.uncertainty)
       /\ e.intervals.ci99 = Mul(Q(2576, 1000), e.uncertainty)
       /\ Le(Zero, e.intervals.ci90)
       /\ Le(e.intervals.ci90, e.intervals.ci95)
       /\ Le(e.intervals.ci95, e.intervals.ci99)
       /\ LeRoot(e.mcStdDev, e.uncertainty) /\ LeRoot(e.sigmaGPR, e.uncertainty)
  /\ \A e1, e2 \in Archive :
       (e1.pointA = e2.pointA /\ e1.pointB = e2.pointB) => SameMeasurement(e1, e2)

\* C21: the sigmaGPR of every measurement is a relative sigma times the
\* corrected distance: 15% of it when the confidence of the bias model is 0,
\* and localSigma times it when the confidence is positive.
C21_SigmaGprScalesWithDistance ==
  \A e \in Archive :
    e.sigmaGPR = Mul(IF e.confidence = Zero THEN Q(15, 100) ELSE e.localSigma,
                     e.correctedDist)

\* C30: the gallery never holds more than 50 images, and activeImageIdx is
\* -1 exactly when the gallery is empty and an index into it otherwise.
C30_GalleryWithinLimit ==
  /\ Len(imageGallery) <= UploadLimit
  /\ (activeImageIdx = -1) <=> (imageGallery = <<>>)
  /\ imageGallery # <<>> => activeImageIdx \in 0..(Len(imageGallery) - 1)

\* the second half of C30 alone
C30_ActiveIndexValid ==
  /\ (activeImageIdx = -1) <=> (imageGallery = <<>>)
  /\ imageGallery # <<>> => activeImageIdx \in 0..(Len(imageGallery) - 1)


\* the handlers and callbacks that are not part of a calibration: lines added
\* (import, load), edited, deleted and undone, datasets saved, the mode and
\* the image switched, measurements taken
NonCalibrating ==
  {"handleImportCSV", "reader.onload", "handleManualCoordUpdate", "trueLength.onChange",
   "angle.onChange", "onDeleteLine", "undoLastPoint", "handleSavePoints",
   "handleLoadPoints", "setMode", "setActiveImageIdx", "img.onload",
   "calculateMeasurement"}

\* whether two values of homographyMatrix, null or a matrix, are the same
SameMatrix(a, b) ==
  IF a = Null THEN b = Null ELSE IF b = Null THEN FALSE ELSE a = b

\* C22: homographyMatrix takes a new non-null value only in the callback of a
\* computeCalibration the user triggered, and every step of a handler that
\* adds, edits, deletes, undoes, loads or imports lines, switches the mode or
\* the image, or takes a measurement leaves it as it was.
C22_MatrixOnlyFromCalibration ==
  [][/\ (~SameMatrix(homographyMatrix, homographyMatrix') /\ homographyMatrix' # Null)
          => /\ lastHandler' = "computeCalibration: timeout"
             /\ pendingCalibrations # <<>>
             /\ computations >= Head(pendingCalibrations).n
     /\ lastHandler' \in NonCalibrating
          => SameMatrix(homographyMatrix, homographyMatrix')]_vars

\* a line was deleted after a calibration succeeded, and the matrix is there
C22_LineDeletedAfterCalibration ==
  /\ homographyMatrix # Null
  /\ calibrationStatus = "success"
  /\ lastHandler = "onDeleteLine"

\* C27: a pending calibration never overrides a later clear: a matrix that is
\* set comes from a computeCalibration triggered after the last clearScoped of
\* CALIBRATE mode, the status is 'idle' as long as none was triggered after
\* it, and at most one computation is pending.
C27_ClearIsFinal ==
  /\ homographyMatrix # Null => matrixFrom > clearedAt
  /\ (clearedAt > 0 /\ computations = clearedAt) => calibrationStatus = "idle"
  /\ Len(pendingCalibrations) <= 1

\* C23: the descent loop ends, and when it has ended it has run exactly
\* `iterations` times (30000 in the source, Iterations here), whatever the
\* lines (at least two defined ones) and the gradients were.
C23_LoopRunsAllIterations ==
  /\ [](pc = "scale" => iter = Iterations)
  /\ [][iter' = iter + 1 \/ (iter' = iter /\ pc' = "scale")]_vars
  /\ <>(pc = "scale")

\* the loop has ended after an iteration whose gradient was NaN
C23_EndedAfterNaNGradient ==
  pc = "scale" /\ iter = Iterations /\ Len(activeLines) >= 2 /\ IsNaN(gradients[1])

\* the number of blocks of DecayPeriod (3000 in the source) iterations completed
CompletedBlocks == iter \div DecayPeriod

RECURSIVE Halved(_, _)
Halved(s, k) == IF k = 0 THEN s ELSE Halved(Mul(s, Q(1, 2)), k - 1)

\* C24: h[8] stays 1 and the base step is halved every 3000 iterations: after
\* k completed blocks it is the initial step times (1/2)^k.
C24_StepHalvedPerBlock ==
  pc = "loop" =>
    /\ h[9] = One
    /\ stepSize = Halved(InitialStepSize, CompletedBlocks)

\* the first half of C24 alone: an update is min(stepSize, 0.1/|g|) * g, no
\* longer than 0.1, and changes h[0..7] only
C24_UpdateIsClipped ==
  [][iter' = iter + 1 =>
       LET gNorm == GNorm(gradients')
           delta == [i \in 1..9 |-> Sub(h[i], h'[i])]
       IN /\ h'[9] = h[9]
          /\ StepTaken(gNorm) =>
               /\ \A i \in 1..8 :
                    delta[i] = Mul(Min(stepSize, Div(MaxUpdate, gNorm)),
                                   Mul(GradientUnit, gradients'[i]))
               /\ ~Lt(MaxUpdate, Sqrt(SumOfSquares(delta, 1, Zero)))
          /\ ~StepTaken(gNorm) => h' = h]_vars

\* the directions of two angles differ by 90 or 270 degrees, within 5
PerpendicularDirections(a, b) ==
  AbsDeg(((a - b) % 360) - 90) < 5 \/ AbsDeg(((a - b) % 360) - 270) < 5

\* C25: the orthogonality penalty is applied to a pair of lines exactly when
\* the directions of their angles differ by 90 or 270 degrees within 5,
\* however the angles are written (0 and 450 as 0 and 90).
C25_PenaltyByDirection ==
  iter > 0 =>
    orthoPairs = {p \in (0..(Len(activeLines) - 1)) \X (0..(Len(activeLines) - 1)) :
                    /\ p[1] < p[2]
                    /\ PerpendicularDirections(activeLines[p[1] + 1].angle,
                                               activeLines[p[2] + 1].angle)}

\* C26: computeHomography and solveLinearSystem leave their arguments as they
\* were: the points src and dst during the whole call, and the matrix A and
\* the vector B while the elimination and the back substitution work on mat.
C26_ArgumentsUnchanged ==
  [][/\ src' = src
     /\ dst' = dst
     /\ dpc = "solve" => (AtA' = AtA /\ AtB' = AtB)]_vars

\* the elimination has changed mat, a solution was returned, and A and B
\* still make up the matrix the elimination started from
C26_EliminatedACopy ==
  /\ dpc = "done"
  /\ Len(pivots) = 8
  /\ mat # Augmented(AtA, AtB)
  /\ AtA = NormalMatrix(NormalEquations(RowsA(normalize(src).normPts,
                                              normalize(dst).normPts),
                                        RowsB(normalize(dst).normPts)))

\* C26 for undistortPoint and applyHomography: no step changes an argument
C26_PrimitivesKeepArguments ==
  [][UNCHANGED <<pPt, pH, pK1, pCenter, pDiag>>]_vars

\* C26 for optimizeHomographyFromLines
C26_OptimizerKeepsArguments == [][UNCHANGED <<lines, k1, center, diag>>]_vars

\* C26 for runMonteCarlo: a call leaves its arguments
C26_MonteCarloKeepsArguments == [][mpc # "idle" => mArgs' = mArgs]_vars

\* C26 for predictBiasRatio
C26_PredictionKeepsArguments ==
  [][gpc # "idle" => (gMidpoint' = gMidpoint /\ gHistory' = gHistory)]_vars

\* C29: a call of calculateMeasurement with a homography, both points and a
\* non-zero image width appends exactly one entry to the archive, the earlier
\* entries as they were, and sets calcResult to the distance, sigma and
\* intervals of that entry; a call without one of them leaves the archive and
\* calcResult as they were; no call changes anything else.
C29_MeasurementOnlyWhenPossible ==
  [][lastHandler' = "calculateMeasurement" =>
       /\ UNCHANGED <<homographyMatrix, imgDims, lensK1, validationLines, measurements>>
       /\ IF /\ homographyMatrix # Null
             /\ measurements.pointA # Null
             /\ measurements.pointB # Null
             /\ ~IsZero(imgDims.w)
          THEN /\ Len(measurementArchive') = Len(measurementArchive) + 1
               /\ SubSeq(measurementArchive', 1, Len(measurementArchive)) = measurementArchive
               /\ LET entry == measurementArchive'[Len(measurementArchive')]
                  IN /\ calcResult'.dist = entry.correctedDist
                     /\ calcResult'.rawDist = entry.rawDist
                     /\ calcResult'.uncertainty = entry.uncertainty
                     /\ calcResult'.intervals = entry.intervals
                     /\ entry.pointA = measurements.pointA
                     /\ entry.pointB = measurements.pointB
          ELSE /\ measurementArchive' = measurementArchive
               /\ calcResult' = calcResult]_vars

\* a measurement was appended after the entries of an imported file
C29_AppendedToArchive ==
  /\ lastHandler = "calculateMeasurement"
  /\ Len(measurementArchive) = Len(CsvFile) + 1
  /\ calcResult # Null
  /\ calcResult.dist = measurementArchive[Len(measurementArchive)].correctedDist

\* calculateMeasurement was called on an image of width 0 and changed nothing
C29_RefusedWithoutWidth ==
  /\ lastHandler = "calculateMeasurement"
  /\ IsZero(imgDims.w)
  /\ homographyMatrix # Null
  /\ measurementArchive = <<>>
  /\ calcResult = Null

\* every defined validation line with a positive trueLength carries the
\* errorPct and mcsUncertainty of its current endpoints and trueLength under
\* the current matrix and lensK1, and the errorPct values average to the
\* global validation MAPE
ResultsCurrent ==
  /\ \A n \in 1..Len(validationLines) :
       (validationLines[n].defined /\ Gt(validationLines[n].trueLength, Zero)) =>
         /\ Field(validationLines[n], "errorPct") =
              ErrPct(validationLines[n], homographyMatrix, lensK1,
                     Center(imgDims), Diagonal(imgDims))
         /\ Field(validationLines[n], "mcsUncertainty") =
              McsUncertainty(validationLines[n], homographyMatrix, lensK1,
                             Center(imgDims), Diagonal(imgDims))
  /\ \A n \in 1..Len(ActiveLines(validationLines)) :
       Field(ActiveLines(validationLines)[n], "errorPct") # Undefined
  /\ ActiveLines(validationLines) # <<>> =>
       Mul(GlobalMape(validationLines, homographyMatrix, imgDims, lensK1),
           Q(Len(ActiveLines(validationLines)), 1))
       = SumSeq([n \in 1..Len(ActiveLines(validationLines)) |->
                   ActiveLines(validationLines)[n].errorPct], 1)

\* C28: validation results are never stale: whenever a homography exists,
\* after any edits, each defined validation line with trueLength > 0
\* eventually carries the errorPct and mcsUncertainty of its current data,
\* consistent with the global validation MAPE, also after an edit of a
\* coordinate or of the trueLength that keeps the number of lines.
C28_ResultsEventuallyCurrent ==
  (homographyMatrix # Null) ~> ResultsCurrent

\* the same as a property of the states where no effect is left to run
C28_SettledResultsCurrent ==
  (homographyMatrix # Null /\ ~EffectPending) => ResultsCurrent
=========================================================================
